---- MODULE Spec2Model ----
(***************************************************************************)
(* Persistence and real-time synchronisation core of drawDB:               *)
(*   - the Sync Gateway (socket.io rooms) and the client SocketService,    *)
(*   - the Document Store (class Database, one branch per engine),         *)
(*   - the Document API handlers of the two server entry points,           *)
(*   - the client save controller (Workspace.jsx),                         *)
(*   - the configuration catalog (ConfigManager),                          *)
(*   - the Connection Manager.                                             *)
(* Each component has its own next-state relation over the shared state.   *)
(***************************************************************************)
EXTENDS Integers, Sequences, FiniteSets, TLC

VARIABLES
    serverImpl,        \* which server entry point runs: "part_009" or "part_011"
    \* ---- SocketService (one per client) and Sync Gateway
    socket,            \* [client -> "null" | "open"]      this.socket
    socketId,          \* [client -> 0..MaxSocketIds]      this.socket.id (0: undefined)
    isConnected,       \* [client -> BOOLEAN]              this.isConnected
    currentDiagramId,  \* [client -> diagram | "null"]     this.currentDiagramId
    joinRetry,         \* [client -> diagram | "null"]     pending setTimeout of joinDiagram
    saved,             \* [client -> write whose continuation in save is still to run]
    nextSocketId,      \* ids handed out by the gateway so far
    rooms,             \* [diagram -> set of socket ids]   io.sockets.adapter.rooms
    wire,              \* [client -> Seq(message)]         client -> gateway, in flight
    delivered,         \* set of 'diagram-updated' events delivered to connections
    nextChange,        \* number of change notifications originated so far
    lastHandled,       \* the last client notification the gateway consumed
    \* ---- Connection Manager view used by the Document Store
    currentConnection, \* handle id of the active connection, 0: null
    connectionConfig,  \* the active config record, or NoConfig
    sshTunnel,         \* this.sshTunnel: tunnel id, 0: null
    \* ---- Document Store (class Database)
    dbHandle,          \* Database.db: "null" | "open"
    tables,            \* [store -> [id -> row | NoRow]]   the diagrams table of each store
    nullIdRows,        \* [store -> 0..MaxNullRows]       rows inserted with a NULL id
    written,           \* [store -> [id -> triple]]       what the last successful write submitted
    lastResult,        \* outcome of the last Database / API call
    \* ---- client save controller (Workspace.jsx, one browser window)
    docId,             \* id: NewId (0), a diagram id, or Undefined
    windowName,        \* window.name: "" or the id of `d ${id}`
    saveState,         \* State.NONE | SAVING | SAVED | ERROR
    contentSignature,  \* signature of the content being edited
    lastSavedSignature,\* lastSavedSignatureRef.current, "" before the first save
    autosaveTimer,     \* autosaveTimerRef: TRUE while the 800 ms timeout is pending
    isInitialLoad,     \* isInitialLoad
    inflight,          \* requests of save() awaiting their response
    reqNo,             \* requests issued so far
    createRequests,    \* createDiagram requests issued so far
    idSets,            \* times a create response set id and window.name
    lastWrite,         \* the last write request issued, and what triggered it
    notFound,          \* how the last update answered 'Diagram not found' was handled
    startedNew,        \* whether the document started with id 0
    commanded,         \* whether a save command was given since the mount
    backendAvailable,  \* backendAvailable && useBackendStorage (set together)
    isReloading,       \* isReloading
    reloadClear,       \* TRUE while the 1000 ms timeout that clears isReloading is pending
    prompt,            \* diagram id of the open "updated by another user" notice, or "null"
    audit,             \* what armed the autosave timeout, and what the saves have done
    reloadedSig,       \* the content the last reload put in place, "" once edited
    reloadEmitted,     \* whether a save caused by a reload emitted a change
    emitted,           \* the change notifications save() emitted, and the writes it had answered
    debounce,          \* the timeouts the autosave effect set that have not fired yet
    loadRun,           \* one run of load(): what the stores answer and what it selected
    probe,             \* one run of checkBackend: its health probes and pauses
    ioSockets,         \* the sockets io() returned to the SocketService, and the one it holds
    failedUnreachable, \* whether a save failed because the backend gave no response
    lastEvent,         \* the last 'diagram-updated' event handled, and its effect
    eventsHandled,     \* events handled so far
    remoteWrites,      \* writes of other clients so far
    \* ---- configuration catalog and the resources of the Connection Manager
    catalog,           \* [config key -> row]            table database_configs
    openConnections,   \* handle ids of the storage connections that are open
    openClients,       \* tunnel ids whose SSH client is open
    openStreams,       \* tunnel ids whose forwarded stream is open
    connectionTunnel,  \* currentConnection.sshTunnel: tunnel id, 0: none
    nextHandle,        \* connection handles opened so far
    nextTunnel,        \* SSH tunnels created so far
    lastCall,          \* the last manager call, and the active state before it
    callAudit,         \* what the last manager call did to the resources (kept when .on)
    handlers,          \* [request -> the apply/connect request a handler is running]
    \* ---- configuration store (ConfigManager over database_configs)
    configRows,        \* the rows of database_configs, as stored
    lastID,            \* the AUTOINCREMENT counter of database_configs
    lastReply,         \* the last ConfigManager call / Configuration API response
    saveCalls,         \* [call -> a saveConfig between its SELECT and its write]
    cryptoRun,         \* one run of encrypt followed by decrypt
    sanitizeRun        \* one run of sanitizeForEngine applied twice

gatewayVars == <<rooms, wire, delivered, nextChange, lastHandled>>
syncVars  == <<socket, socketId, isConnected, currentDiagramId, joinRetry, saved,
               nextSocketId, gatewayVars>>
cmVars    == <<currentConnection, connectionConfig, sshTunnel>>
storeVars == <<dbHandle, tables, nullIdRows, written, lastResult>>
managerVars == <<catalog, openConnections, openClients, openStreams, connectionTunnel,
                 nextHandle, nextTunnel, lastCall, callAudit, handlers>>
configVars == <<configRows, lastID, lastReply, cryptoRun, sanitizeRun, saveCalls>>
clientVars == <<docId, windowName, saveState, contentSignature, lastSavedSignature,
                autosaveTimer, isInitialLoad, inflight, reqNo, createRequests, idSets,
                lastWrite, notFound, startedNew, commanded, backendAvailable,
                isReloading, reloadClear, prompt, audit, reloadedSig, reloadEmitted, emitted,
                failedUnreachable, lastEvent, eventsHandled, remoteWrites, debounce,
                loadRun, probe, ioSockets>>

----------------------------------------------------------------------------
(* Bounds and input sets *)

Clients      == {"A", "B"}
Diagrams     == {"d1", "d2"}
RoomIds      == Diagrams \cup {"undefined"}   \* `diagram-${id}` of any id a client holds
MaxSocketIds == 2      \* socket ids the gateway hands out
MaxWire      == 3      \* messages in flight per client socket
MaxChanges   == 1      \* change notifications originated

ServerImpls  == {"part_009", "part_011"}

Undefined    == "undefined"     \* a field missing from the request body
Titles       == {"t1", "t2"}
Tags         == {"generic", "mysql"}
JsonContents == {"c1", "c2"}    \* opaque JSON blobs of the presentation layer
SqlNull      == "NULL"

Engines      == {"sqlite", "mysql", "postgresql"}
Stores       == {"defaultfile", "customfile", "mysql", "postgresql"}
MaxNullRows  == 1      \* rows with a NULL id kept per SQLite file
MaxUpdates   == 2      \* successful updates counted per document
MaxRequests  == 3      \* requests one save controller issues

MaxHandles   == 2      \* storage connections the Connection Manager opens
MaxTunnels   == 1      \* SSH tunnels the Connection Manager creates

NewId        == "0"             \* useState(0): the document has no id yet

NoRow        == [title |-> "none", database_type |-> "none", content |-> "none"]
NoConfig     == [engine |-> "none", name |-> "none", filePath |-> "none",
                 useSSH |-> FALSE, is_default |-> FALSE]

\* (engine, name) of the configurations that are saved
ConfigKeys   == {<<"sqlite", "default">>, <<"mysql", "a">>, <<"postgresql", "a">>}
NoConfigRow  == [present |-> FALSE, is_default |-> FALSE, useSSH |-> FALSE,
                 filePath |-> "none"]
NoCall       == [op |-> "none", before |-> <<0, NoConfig, 0>>]
Requests     == {1, 2}        \* requests the server is handling at the same time
NoRequest    == [phase |-> "idle", config |-> NoConfig, handle |-> 0]
NoCallAudit  == [on |-> FALSE, err |-> FALSE, outcome |-> "none", hadActive |-> FALSE,
                 activeKept |-> FALSE, catChanged |-> FALSE, leaked |-> FALSE,
                 sameResources |-> TRUE, stream |-> 0]

----------------------------------------------------------------------------
(* Document Store: class Database over the active connection *)

\* JSON.stringify(content): undefined stays undefined and is bound as SQL NULL
JSONstringify(v) ==
    CASE v = Undefined -> SqlNull
      [] v = "c1"      -> "{c1}"
      [] v = "c2"      -> "{c2}"
      [] OTHER         -> SqlNull

\* JSON.parse(row.content)
JSONparse(s) ==
    CASE s = "{c1}" -> "c1"
      [] s = "{c2}" -> "c2"
      [] OTHER      -> "null"

\* a bound parameter: undefined is bound as NULL
Bind(v) == IF v = Undefined THEN SqlNull ELSE v

\* ConnectionManager.isConnected()
cmIsConnected == currentConnection # 0

\* the diagrams table a configuration points at
StoreOf(cfg) ==
    CASE cfg.engine = "sqlite"     -> IF cfg.filePath = "custom" THEN "customfile"
                                                                  ELSE "defaultfile"
      [] cfg.engine = "mysql"      -> "mysql"
      [] cfg.engine = "postgresql" -> "postgresql"
      [] OTHER                     -> "defaultfile"

\* the store a Database call reaches: the configured one, else the bundled file
ActiveStore == IF cmIsConnected THEN StoreOf(connectionConfig) ELSE "defaultfile"

Fail(msg, st)  == [ok |-> FALSE, err |-> msg, id |-> "none", row |-> NoRow,
                   store |-> st, tbl |-> tables[st], nulls |-> 0]
Done(i, r, st, t, n) == [ok |-> TRUE, err |-> "", id |-> i, row |-> r,
                   store |-> st, tbl |-> t, nulls |-> n]

\* INSERT INTO diagrams ... through sqlite3 (TEXT PRIMARY KEY admits NULL)
InsertSQLite(st, id, title, tag, content) ==
    LET text == JSONstringify(content) IN
    IF Bind(title) = SqlNull \/ Bind(tag) = SqlNull \/ text = SqlNull
    THEN Fail("SQLITE_CONSTRAINT: NOT NULL", st)
    ELSE IF id = Undefined
    THEN Done(Undefined, [title |-> title, database_type |-> tag, content |-> content],
              st, tables[st], 1)
    ELSE IF tables[st][id] # NoRow
    THEN Fail("SQLITE_CONSTRAINT: UNIQUE", st)
    ELSE Done(id, [title |-> title, database_type |-> tag, content |-> content], st,
              [tables[st] EXCEPT ![id] = [title |-> title, database_type |-> tag,
                                          content |-> text]], 0)

\* INSERT through mysql2 execute / pg query: no undefined, no NULL key
InsertNetwork(st, id, title, tag, content) ==
    LET text == JSONstringify(content) IN
    IF id = Undefined \/ Bind(title) = SqlNull \/ Bind(tag) = SqlNull \/ text = SqlNull
    THEN Fail("bind parameter undefined or NULL", st)
    ELSE IF tables[st][id] # NoRow
    THEN Fail("duplicate key", st)
    ELSE Done(id, [title |-> title, database_type |-> tag, content |-> content], st,
              [tables[st] EXCEPT ![id] = [title |-> title, database_type |-> tag,
                                          content |-> text]], 0)

createDiagramSQLite(st, id, title, tag, content)   == InsertSQLite(st, id, title, tag, content)
createDiagramMySQL(st, id, title, tag, content)    == InsertNetwork(st, id, title, tag, content)
createDiagramPostgres(st, id, title, tag, content) == InsertNetwork(st, id, title, tag, content)

createDiagramWithConnection(id, title, tag, content) ==
    LET st == StoreOf(connectionConfig) IN
    CASE connectionConfig.engine = "sqlite"     -> createDiagramSQLite(st, id, title, tag, content)
      [] connectionConfig.engine = "mysql"      -> createDiagramMySQL(st, id, title, tag, content)
      [] connectionConfig.engine = "postgresql" -> createDiagramPostgres(st, id, title, tag, content)
      [] OTHER -> Fail("Unsupported database engine", st)

createDiagram(id, title, tag, content) ==
    IF cmIsConnected THEN createDiagramWithConnection(id, title, tag, content)
    ELSE IF dbHandle = "null" THEN Fail("Database not connected", "defaultfile")
    ELSE InsertSQLite("defaultfile", id, title, tag, content)

\* SELECT * FROM diagrams WHERE id = ?   (an undefined id matches no row)
SelectRow(st, id) ==
    IF id = Undefined \/ tables[st][id] = NoRow
    THEN Fail("Diagram not found", st)
    ELSE Done(id, [title |-> tables[st][id].title,
                   database_type |-> tables[st][id].database_type,
                   content |-> JSONparse(tables[st][id].content)], st, tables[st], 0)

getDiagramSQLite(st, id)   == SelectRow(st, id)
getDiagramMySQL(st, id)    == SelectRow(st, id)
getDiagramPostgres(st, id) == SelectRow(st, id)

getDiagramWithConnection(id) ==
    LET st == StoreOf(connectionConfig) IN
    CASE connectionConfig.engine = "sqlite"     -> getDiagramSQLite(st, id)
      [] connectionConfig.engine = "mysql"      -> getDiagramMySQL(st, id)
      [] connectionConfig.engine = "postgresql" -> getDiagramPostgres(st, id)
      [] OTHER -> Fail("Unsupported database engine", st)

getDiagram(id) ==
    IF cmIsConnected THEN getDiagramWithConnection(id)
    ELSE IF dbHandle = "null" THEN Fail("Database not connected", "defaultfile")
    ELSE SelectRow("defaultfile", id)

\* a mutation: the affected-row check is dropped and every UPDATE/DELETE counts one row
UpdateMatchedAlways(st, id) == 1

\* UPDATE diagrams SET title, database_type, content WHERE id = ?: rows matched
UpdateMatched(st, id) == IF id # Undefined /\ tables[st][id] # NoRow THEN 1 ELSE 0

\* a mutation: the UPDATE leaves the title column as it was
UpdateStatementKeepsTitle(st, id, title, tag, content) ==
    [tables[st] EXCEPT ![id] = [title |-> tables[st][id].title, database_type |-> tag,
                                content |-> JSONstringify(content)]]

UpdateStatement(st, id, title, tag, content) ==
    [tables[st] EXCEPT ![id] = [title |-> title, database_type |-> tag,
                                content |-> JSONstringify(content)]]

updateDiagramSQLite(st, id, title, tag, content) ==
    IF UpdateMatched(st, id) = 0 THEN Fail("Diagram not found", st)
    ELSE IF Bind(title) = SqlNull \/ Bind(tag) = SqlNull \/ JSONstringify(content) = SqlNull
    THEN Fail("SQLITE_CONSTRAINT: NOT NULL", st)
    ELSE Done(id, [title |-> title, database_type |-> tag, content |-> content], st,
              UpdateStatement(st, id, title, tag, content), 0)

updateDiagramMySQL(st, id, title, tag, content) ==
    IF id = Undefined \/ Bind(title) = SqlNull \/ Bind(tag) = SqlNull
       \/ JSONstringify(content) = SqlNull
    THEN Fail("bind parameter undefined or NULL", st)
    ELSE IF UpdateMatched(st, id) = 0 THEN Fail("Diagram not found", st)
    ELSE Done(id, [title |-> title, database_type |-> tag, content |-> content], st,
              UpdateStatement(st, id, title, tag, content), 0)

updateDiagramPostgres(st, id, title, tag, content) ==
    IF UpdateMatched(st, id) = 0 THEN Fail("Diagram not found", st)
    ELSE IF Bind(title) = SqlNull \/ Bind(tag) = SqlNull \/ JSONstringify(content) = SqlNull
    THEN Fail("null value violates not-null constraint", st)
    ELSE Done(id, [title |-> title, database_type |-> tag, content |-> content], st,
              UpdateStatement(st, id, title, tag, content), 0)

updateDiagramWithConnection(id, title, tag, content) ==
    LET st == StoreOf(connectionConfig) IN
    CASE connectionConfig.engine = "sqlite"     -> updateDiagramSQLite(st, id, title, tag, content)
      [] connectionConfig.engine = "mysql"      -> updateDiagramMySQL(st, id, title, tag, content)
      [] connectionConfig.engine = "postgresql" -> updateDiagramPostgres(st, id, title, tag, content)
      [] OTHER -> Fail("Unsupported database engine", st)

updateDiagram(id, title, tag, content) ==
    IF cmIsConnected THEN updateDiagramWithConnection(id, title, tag, content)
    ELSE IF dbHandle = "null" THEN Fail("Database not connected", "defaultfile")
    ELSE updateDiagramSQLite("defaultfile", id, title, tag, content)

\* DELETE FROM diagrams WHERE id = ?
DeleteStatement(st, id) ==
    IF UpdateMatched(st, id) = 0 THEN Fail("Diagram not found", st)
    ELSE Done(id, NoRow, st, [tables[st] EXCEPT ![id] = NoRow], 0)

deleteDiagramSQLite(st, id)   == DeleteStatement(st, id)
deleteDiagramMySQL(st, id)    ==
    IF id = Undefined THEN Fail("bind parameter undefined or NULL", st)
    ELSE DeleteStatement(st, id)
deleteDiagramPostgres(st, id) == DeleteStatement(st, id)

deleteDiagramWithConnection(id) ==
    LET st == StoreOf(connectionConfig) IN
    CASE connectionConfig.engine = "sqlite"     -> deleteDiagramSQLite(st, id)
      [] connectionConfig.engine = "mysql"      -> deleteDiagramMySQL(st, id)
      [] connectionConfig.engine = "postgresql" -> deleteDiagramPostgres(st, id)
      [] OTHER -> Fail("Unsupported database engine", st)

deleteDiagram(id) ==
    IF cmIsConnected THEN deleteDiagramWithConnection(id)
    ELSE IF dbHandle = "null" THEN Fail("Database not connected", "defaultfile")
    ELSE deleteDiagramSQLite("defaultfile", id)

----------------------------------------------------------------------------
(* Document API handlers of the two server entry points *)

Missing(v) == v = Undefined     \* !title, !databaseType, !content

\* const databaseType = currentConfig?.engine || 'sqlite'
EngineTag == IF connectionConfig.engine = "none" THEN "sqlite" ELSE connectionConfig.engine

Response(code, r, bc) == [status |-> code, r |-> r, broadcast |-> bc]

\* app.post('/api/diagrams'): newId is the nanoid(12) drawn by part_009
postDiagram(newId, bodyId, title, tag, content) ==
    IF serverImpl = "part_009"
    THEN IF Missing(title) \/ Missing(tag) \/ Missing(content)
         THEN Response(400, Fail("Missing required fields", ActiveStore), FALSE)
         ELSE LET r == createDiagram(newId, title, tag, content) IN
              Response(IF r.ok THEN 201 ELSE 500, r, FALSE)
    ELSE LET r == createDiagram(bodyId, title, EngineTag, content) IN
         Response(IF r.ok THEN 200 ELSE 500, r, FALSE)

\* app.put('/api/diagrams/:id')
putDiagram(id, title, tag, content) ==
    IF serverImpl = "part_009"
    THEN IF Missing(title) \/ Missing(tag) \/ Missing(content)
         THEN Response(400, Fail("Missing required fields", ActiveStore), FALSE)
         ELSE LET r == updateDiagram(id, title, tag, content) IN
              Response(IF r.ok THEN 200
                       ELSE IF r.err = "Diagram not found" THEN 404 ELSE 500, r, r.ok)
    ELSE LET r == updateDiagram(id, title, EngineTag, content) IN
         Response(IF r.ok THEN 200 ELSE 500, r, FALSE)

\* the status of the catch block of a handler
CatchStatus(r) ==
    IF serverImpl = "part_009"
    THEN (IF r.err = "Diagram not found" THEN 404 ELSE 500)
    ELSE 500

\* app.get('/api/diagrams/:id'); getDiagram never resolves an empty value, so
\* the `!diagram` test of part_011 is never true
getDiagramApi(id) ==
    LET r == getDiagram(id) IN
    Response(IF r.ok THEN 200 ELSE CatchStatus(r), r, FALSE)

\* app.put('/api/diagrams/:id') with a complete body
putDiagramApi(id, title, tag, content) ==
    LET resp == putDiagram(id, title, tag, content) IN
    Response(IF resp.r.ok \/ resp.status = 400 THEN resp.status ELSE CatchStatus(resp.r),
             resp.r, resp.broadcast)

\* app.delete('/api/diagrams/:id')
deleteDiagramApi(id) ==
    LET r == deleteDiagram(id) IN
    Response(IF r.ok THEN (IF serverImpl = "part_009" THEN 204 ELSE 200)
             ELSE CatchStatus(r), r, FALSE)

\* the table and the NULL-id row count after a Database call
TablesAfter(r) == [tables EXCEPT ![r.store] = r.tbl]

----------------------------------------------------------------------------
(* SocketService (client) and Sync Gateway (server) *)

Msg(t, d, n) == [type |-> t, diagramId |-> d, n |-> n]
NoHandled    == [n |-> 0, from |-> 0, diagramId |-> "null", members |-> {}]
NoSaved      == [id |-> "null", n |-> 0]

Connected(c) == socket[c] = "open" /\ isConnected[c]

\* the gateway forgets a connection: socket.io removes it from every room
DropFromRooms(sid) == [d \in RoomIds |-> rooms[d] \ {sid}]

\* SocketService.connect(): a socket that exists and is connected is kept,
\* otherwise this.socket becomes a new socket that has no id yet
connect(c) ==
    /\ ~Connected(c)
    /\ socket' = [socket EXCEPT ![c] = "open"]
    /\ UNCHANGED <<socketId, isConnected, currentDiagramId, joinRetry, saved,
                   nextSocketId, gatewayVars>>

\* this.socket.on('connect'): the gateway's io.on('connection') gave the socket an id
onConnect(c) ==
    /\ socket[c] = "open" /\ ~isConnected[c]
    /\ nextSocketId < MaxSocketIds
    /\ nextSocketId' = nextSocketId + 1
    /\ socketId' = [socketId EXCEPT ![c] = nextSocketId + 1]
    /\ isConnected' = [isConnected EXCEPT ![c] = TRUE]
    /\ UNCHANGED <<socket, currentDiagramId, joinRetry, saved, gatewayVars>>

\* this.socket.on('disconnect'): the transport dropped; socket.io will reconnect
onDisconnect(c) ==
    /\ Connected(c)
    /\ isConnected' = [isConnected EXCEPT ![c] = FALSE]
    /\ rooms' = DropFromRooms(socketId[c])
    /\ socketId' = [socketId EXCEPT ![c] = 0]
    /\ wire' = [wire EXCEPT ![c] = <<>>]
    /\ UNCHANGED <<socket, currentDiagramId, joinRetry, saved, nextSocketId, delivered,
                   nextChange, lastHandled>>

\* SocketService.disconnect()
disconnectSocket(c) ==
    /\ socket[c] = "open"
    /\ socket' = [socket EXCEPT ![c] = "null"]
    /\ socketId' = [socketId EXCEPT ![c] = 0]
    /\ isConnected' = [isConnected EXCEPT ![c] = FALSE]
    /\ currentDiagramId' = [currentDiagramId EXCEPT ![c] = "null"]
    /\ rooms' = DropFromRooms(socketId[c])
    /\ wire' = [wire EXCEPT ![c] = <<>>]
    /\ UNCHANGED <<joinRetry, saved, nextSocketId, delivered, nextChange, lastHandled>>

\* SocketService.leaveDiagram(diagramId) on a connected socket: what it emits
leaveDiagram(c, d) == <<Msg("leave-diagram", d, 0)>>

\* SocketService.joinDiagram(diagramId) on a connected socket: what it emits
joinEmits(c, d) ==
    IF currentDiagramId[c] = d THEN <<>>
    ELSE (IF currentDiagramId[c] # "null" THEN leaveDiagram(c, currentDiagramId[c])
          ELSE <<>>) \o <<Msg("join-diagram", d, 0)>>

\* SocketService.emitDiagramUpdate(diagramId, updateData): what it emits
emitDiagramUpdate(c, d, n) ==
    IF Connected(c) THEN <<Msg("diagram-updated", d, n)>> ELSE <<>>

\* SocketService.joinDiagram(diagramId); `after` is what the caller emits next
joinDiagramThen(c, d, after) ==
    IF ~Connected(c)
    THEN \* connect(), and joinDiagram again after a second
         /\ socket' = [socket EXCEPT ![c] = "open"]
         /\ joinRetry' = [joinRetry EXCEPT ![c] = d]
         /\ UNCHANGED <<currentDiagramId, wire>>
    ELSE /\ Len(wire[c]) + Len(joinEmits(c, d)) + Len(after) <= MaxWire
         /\ wire' = [wire EXCEPT ![c] = wire[c] \o joinEmits(c, d) \o after]
         /\ currentDiagramId' = [currentDiagramId EXCEPT ![c] = d]
         /\ UNCHANGED <<socket, joinRetry>>

\* loadDiagram: socketService.joinDiagram(diagram.id)
joinDiagram(c, d) ==
    /\ ~Connected(c) \/ currentDiagramId[c] # d
    /\ joinDiagramThen(c, d, <<>>)
    /\ UNCHANGED <<socketId, isConnected, saved, nextSocketId, rooms, delivered,
                   nextChange, lastHandled>>

\* setTimeout(() => this.joinDiagram(diagramId), 1000) fires
joinRetryFire(c) ==
    /\ joinRetry[c] # "null"
    /\ IF ~Connected(c)
       THEN /\ socket' = [socket EXCEPT ![c] = "open"]
            /\ UNCHANGED <<joinRetry, currentDiagramId, wire>>
       ELSE /\ Len(wire[c]) + Len(joinEmits(c, joinRetry[c])) <= MaxWire
            /\ wire' = [wire EXCEPT ![c] = wire[c] \o joinEmits(c, joinRetry[c])]
            /\ currentDiagramId' = [currentDiagramId EXCEPT ![c] = joinRetry[c]]
            /\ joinRetry' = [joinRetry EXCEPT ![c] = "null"]
            /\ UNCHANGED socket
    /\ UNCHANGED <<socketId, isConnected, saved, nextSocketId, rooms, delivered,
                   nextChange, lastHandled>>

\* save, after its write succeeded: socketService.joinDiagram(id);
\* socketService.emitDiagramUpdate(id, ...)
afterSave(c) ==
    /\ saved[c] # NoSaved
    /\ joinDiagramThen(c, saved[c].id, emitDiagramUpdate(c, saved[c].id, saved[c].n))
    /\ saved' = [saved EXCEPT ![c] = NoSaved]
    /\ UNCHANGED <<socketId, isConnected, nextSocketId, rooms, delivered,
                   nextChange, lastHandled>>

\* an event the gateway hands to connection `to`
Event(to, n, d, by, origin, via) ==
    [to |-> to, n |-> n, diagramId |-> d, updatedBy |-> by, origin |-> origin, via |-> via]

\* socket.to(room).emit(...): every member of the room except the sender
socketTo(sid, d) == rooms[d] \ {sid}

\* io.to(room).emit(...): every member of the room
ioTo(d) == rooms[d]

\* whether the entry point listens to a client event
Listens(type) ==
    IF serverImpl = "part_009"
    THEN type \in {"join-diagram", "leave-diagram", "diagram-updated"}
    ELSE type \in {"join-diagram", "leave-diagram", "diagram-update"}

\* the gateway takes the next message of c's socket off the wire
gatewayReceive(c) ==
    /\ Connected(c)
    /\ wire[c] # <<>>
    /\ LET m == Head(wire[c])
           sid == socketId[c]
       IN /\ wire' = [wire EXCEPT ![c] = Tail(wire[c])]
          /\ rooms' = CASE m.type = "join-diagram" /\ Listens(m.type) ->
                             [rooms EXCEPT ![m.diagramId] = @ \cup {sid}]
                        [] m.type = "leave-diagram" /\ Listens(m.type) ->
                             [rooms EXCEPT ![m.diagramId] = @ \ {sid}]
                        [] OTHER -> rooms
          /\ delivered' =
                IF m.type = "diagram-updated" /\ Listens(m.type)
                THEN delivered \cup {Event(to, m.n, m.diagramId, sid, sid, "socket") :
                                        to \in socketTo(sid, m.diagramId)}
                ELSE delivered
          /\ lastHandled' =
                IF m.type = "diagram-updated"
                THEN [n |-> m.n, from |-> sid, diagramId |-> m.diagramId,
                      members |-> rooms[m.diagramId]]
                ELSE lastHandled
    /\ UNCHANGED <<socket, socketId, isConnected, currentDiagramId, joinRetry, saved,
                   nextSocketId, nextChange>>

\* the real store state after a Database call
StoreWrite(r) ==
    /\ r.nulls = 0 \/ nullIdRows[r.store] < MaxNullRows
    /\ tables' = TablesAfter(r)
    /\ nullIdRows' = [nullIdRows EXCEPT ![r.store] = @ + r.nulls]

\* save of a new diagram: client c sends POST /api/diagrams; the response reaches it
savePost(c) ==
    /\ saved[c] = NoSaved
    /\ nextChange < MaxChanges
    /\ \E newId \in {i \in Diagrams : tables[ActiveStore][i] = NoRow} :
          LET resp == postDiagram(newId, Undefined, "t1", "generic", "c1") IN
          /\ StoreWrite(resp.r)
          /\ saved' = [saved EXCEPT ![c] =
                          IF resp.r.ok THEN [id |-> resp.r.id, n |-> nextChange + 1]
                          ELSE NoSaved]
    /\ nextChange' = nextChange + 1
    /\ UNCHANGED <<socket, socketId, isConnected, currentDiagramId, joinRetry,
                   nextSocketId, rooms, wire, delivered, lastHandled>>

\* save of an existing diagram: client c sends PUT /api/diagrams/:id; part_009
\* emits 'diagram-updated' with io.to(room) before it answers
savePut(c, id) ==
    /\ saved[c] = NoSaved
    /\ nextChange < MaxChanges
    /\ LET resp == putDiagram(id, "t1", "generic", "c1") IN
       /\ StoreWrite(resp.r)
       /\ delivered' =
             IF resp.broadcast
             THEN delivered \cup {Event(to, nextChange + 1, id, 0, socketId[c], "put") :
                                     to \in ioTo(id)}
             ELSE delivered
       /\ saved' = [saved EXCEPT ![c] =
                       IF resp.r.ok THEN [id |-> id, n |-> nextChange + 1] ELSE NoSaved]
    /\ nextChange' = nextChange + 1
    /\ UNCHANGED <<socket, socketId, isConnected, currentDiagramId, joinRetry,
                   nextSocketId, rooms, wire, lastHandled>>

----------------------------------------------------------------------------
(* Calls on the Document Store and requests to the Document API *)

NoWritten == [title |-> "none", database_type |-> "none", content |-> "none", updates |-> 0,
              submitted |-> "none"]
NoResult  == [op |-> "none", id |-> "none", ok |-> FALSE, err |-> "", status |-> 0,
              row |-> NoRow, store |-> "defaultfile", changed |-> FALSE, absent |-> FALSE]

Min(a, b) == IF a < b THEN a ELSE b

\* the state after a Database call `op` on `id` that returned r (HTTP status
\* st); `tag` is the databaseType the caller submitted
StoreEffectsOf(op, id, r, st, tag) ==
    /\ StoreWrite(r)
    /\ written' =
          IF r.ok /\ r.id # Undefined /\ op = "create"
          THEN [written EXCEPT ![r.store][r.id] =
                   [title |-> r.row.title, database_type |-> r.row.database_type,
                    content |-> r.row.content, updates |-> 0, submitted |-> tag]]
          ELSE IF r.ok /\ op = "update"
          THEN [written EXCEPT ![r.store][r.id] =
                   [title |-> r.row.title, database_type |-> r.row.database_type,
                    content |-> r.row.content,
                    updates |-> Min(written[r.store][r.id].updates + 1, MaxUpdates),
                    submitted |-> tag]]
          ELSE IF r.ok /\ op = "delete"
          THEN [written EXCEPT ![r.store][r.id] = NoWritten]
          ELSE written
    /\ lastResult' = [op |-> op, id |-> id, ok |-> r.ok, err |-> r.err, status |-> st,
                      row |-> r.row, store |-> r.store,
                      changed |-> (r.tbl # tables[r.store] \/ r.nulls # 0),
                      absent |-> (id = Undefined \/ tables[r.store][id] = NoRow)]

\* a call made on the Database itself: the tag passed is the one submitted
StoreEffects(op, id, r, st) == StoreEffectsOf(op, id, r, st, r.row.database_type)

\* Database.createDiagram / getDiagram / updateDiagram / deleteDiagram called directly
dbCreate(id, title, tag, content) ==
    /\ StoreEffects("create", id, createDiagram(id, title, tag, content), 0)
    /\ UNCHANGED <<serverImpl, syncVars, cmVars, dbHandle, clientVars, managerVars, configVars>>

dbGet(id) ==
    /\ StoreEffects("get", id, getDiagram(id), 0)
    /\ UNCHANGED <<serverImpl, syncVars, cmVars, dbHandle, clientVars, managerVars, configVars>>

dbUpdate(id, title, tag, content) ==
    /\ StoreEffects("update", id, updateDiagram(id, title, tag, content), 0)
    /\ UNCHANGED <<serverImpl, syncVars, cmVars, dbHandle, clientVars, managerVars, configVars>>

dbDelete(id) ==
    /\ StoreEffects("delete", id, deleteDiagram(id), 0)
    /\ UNCHANGED <<serverImpl, syncVars, cmVars, dbHandle, clientVars, managerVars, configVars>>

----------------------------------------------------------------------------
(* ConfigManager.encrypt / decrypt: AES-256-CBC under sha256(key), with a   *)
(* random iv, rendered as hex(iv) ':' hex(ciphertext). Bytes are taken      *)
(* modulo ByteRange and a cipher block is one byte wide.                    *)

ByteRange == 4
Bytes     == 0 .. (ByteRange - 1)
MaxText   == 3                       \* longest plaintext, in bytes
CipherKeys == {"default-key-change-in-production", "ENCRYPTION_KEY"}

Texts == UNION {[1..n -> Bytes] : n \in 0..MaxText}

HexDigit == <<"0", "1", "2", "3">>

\* crypto.createHash('sha256').update(key).digest()
KeyHash(key) == IF key = "ENCRYPTION_KEY" THEN 3 ELSE 1

\* bitwise exclusive or of two bytes
Xor(a, b) == (((a % 2) + (b % 2)) % 2) + 2 * (((a \div 2) + (b \div 2)) % 2)

\* the block cipher and its inverse under key hash k
BlockEncrypt(k, b) == (b + k) % ByteRange

\* a mutation: the inverse cipher applies the forward permutation
BlockDecryptForward(k, b) == (b + k) % ByteRange

BlockDecrypt(k, b) == (b + ByteRange - k) % ByteRange

\* PKCS#7 padding to whole blocks (block length 1: one byte of value 1)
Pad(text) == text \o <<1>>

RECURSIVE CbcEncrypt(_, _, _)
CbcEncrypt(padded, k, prev) ==
    IF padded = <<>> THEN <<>>
    ELSE LET c == BlockEncrypt(k, Xor(Head(padded), prev))
         IN <<c>> \o CbcEncrypt(Tail(padded), k, c)

RECURSIVE CbcDecrypt(_, _, _)
CbcDecrypt(data, k, prev) ==
    IF data = <<>> THEN <<>>
    ELSE <<Xor(BlockDecrypt(k, Head(data)), prev)>> \o CbcDecrypt(Tail(data), k, Head(data))

\* buffer.toString('hex') and Buffer.from(text, 'hex')
ToHex(bytes)  == [i \in 1..Len(bytes) |-> HexDigit[bytes[i] + 1]]
FromHex(text) == [i \in 1..Len(text) |-> (CHOOSE b \in Bytes : HexDigit[b + 1] = text[i])]

\* encrypt(text, key); iv is crypto.randomBytes(16)
encrypt(text, key, iv) ==
    IF text = <<>> THEN <<>>
    ELSE ToHex(<<iv>>) \o <<":">> \o ToHex(CbcEncrypt(Pad(text), KeyHash(key), iv))

\* positions of ':' in a stored value
Colons(text) == {i \in 1..Len(text) : text[i] = ":"}

\* the hex digits a text begins with: Buffer.from(text, 'hex') and
\* decipher.update(text, 'hex') decode up to the first character that is none
HexPrefix(text) ==
    LET digits == {HexDigit[i] : i \in 1..Len(HexDigit)}
        bad == {i \in 1..Len(text) : text[i] \notin digits}
    IN IF bad = {} THEN text
       ELSE SubSeq(text, 1, (CHOOSE i \in bad : \A j \in bad : i <= j) - 1)

Threw(value)    == [threw |-> TRUE, value |-> value]
Returned(value) == [threw |-> FALSE, value |-> value]

\* the try block of decrypt: createDecipheriv throws on an iv that is not one
\* block long, decipher.final on empty data or on a bad padding
tryDecrypt(encryptedText, key) ==
    IF Cardinality(Colons(encryptedText)) # 1 THEN Returned(encryptedText)
    ELSE LET at     == CHOOSE i \in Colons(encryptedText) : TRUE
             iv     == FromHex(HexPrefix(SubSeq(encryptedText, 1, at - 1)))
             data   == FromHex(HexPrefix(SubSeq(encryptedText, at + 1, Len(encryptedText))))
         IN IF Len(iv) # 1 \/ data = <<>> THEN Threw(<<>>)
            ELSE LET padded == CbcDecrypt(data, KeyHash(key), iv[1])
                 IN IF padded[Len(padded)] # 1 THEN Threw(<<>>)
                    ELSE Returned(SubSeq(padded, 1, Len(padded) - 1))

\* a mutation: the catch block throws the error again
Rethrown(r, encryptedText) == r

\* catch (error) { console.warn(...); return encryptedText; }
Caught(r, encryptedText) == IF r.threw THEN Returned(encryptedText) ELSE r

\* one call of decrypt: what it returns, or that it threw
decryptCall(encryptedText, key) ==
    IF encryptedText = <<>> THEN Returned(<<>>)
    ELSE Caught(tryDecrypt(encryptedText, key), encryptedText)

\* decrypt(encryptedText, key): a value that is not iv:data, or that does not
\* decipher to a padded text, is returned as it is
decrypt(encryptedText, key) == decryptCall(encryptedText, key).value

NoCrypto == [phase |-> "input", text |-> <<>>, key |-> "none", envelope |-> <<>>,
             decrypted |-> <<>>, failed |-> FALSE, threw |-> FALSE]
NoSanitize == [phase |-> "idle"]

InitRuns == cryptoRun = NoCrypto /\ sanitizeRun = NoSanitize

MaxSaveCalls == 2         \* calls of saveConfig that run at the same time

\* a call of saveConfig that has not started
NoSaveCall == [phase |-> "idle", config |-> <<>>, iv |-> 0, found |-> {}]

\* database_configs after ConfigManager.init: the baseline row that
\* ensureDefaultConfig inserted, with no secrets
NoReply == [op |-> "none", id |-> 0, existed |-> FALSE, expected |-> 0, before |-> 0,
            body |-> {}]

InitConfigStore ==
    /\ configRows = {[id |-> 1, engine |-> "sqlite", name |-> "SQLite (Default)",
                      password |-> <<>>, is_default |-> FALSE]}
    /\ lastID = 1
    /\ lastReply = NoReply
    /\ saveCalls = [i \in 1..MaxSaveCalls |-> NoSaveCall]

----------------------------------------------------------------------------
(* Initial states *)

InitSockets ==
    /\ socket = [c \in Clients |-> "null"]
    /\ socketId = [c \in Clients |-> 0]
    /\ isConnected = [c \in Clients |-> FALSE]
    /\ currentDiagramId = [c \in Clients |-> "null"]
    /\ joinRetry = [c \in Clients |-> "null"]
    /\ saved = [c \in Clients |-> NoSaved]
    /\ nextSocketId = 0
    /\ rooms = [d \in RoomIds |-> {}]
    /\ wire = [c \in Clients |-> <<>>]
    /\ delivered = {}
    /\ nextChange = 0
    /\ lastHandled = NoHandled

InitTables ==
    /\ tables = [st \in Stores |-> [i \in Diagrams |-> NoRow]]
    /\ nullIdRows = [st \in Stores |-> 0]
    /\ written = [st \in Stores |-> [i \in Diagrams |-> NoWritten]]
    /\ lastResult = NoResult

NoWrite    == [kind |-> "none", trigger |-> "none", unchanged |-> FALSE]
NoNotFound == [phase |-> "none", creates |-> 0, saveState |-> "NONE", identity |-> NewId]

\* Workspace as mounted for a document that is new (id 0, nothing saved yet)
InitNewDocument ==
    /\ docId = NewId /\ windowName = ""
    /\ saveState = "NONE"
    /\ contentSignature = "c1" /\ lastSavedSignature = ""
    /\ autosaveTimer = FALSE /\ isInitialLoad = TRUE
    /\ inflight = {} /\ reqNo = 0
    /\ createRequests = 0 /\ idSets = 0
    /\ lastWrite = NoWrite /\ notFound = NoNotFound
    /\ startedNew = TRUE /\ commanded = FALSE

NoAudit == [armedBy |-> "none", reloadWrote |-> FALSE, remoteAfterFailure |-> FALSE,
            edited |-> FALSE]
NoEvent == [updatedBy |-> 0, own |-> 0, effect |-> "none"]
NoEmit  == [on |-> FALSE, acked |-> 0, sent |-> 0, duringReload |-> FALSE]

\* no reload, no notice and no failure yet
\* no timeout set by the autosave effect, no edit since the last one fired
NoDebounce == [on |-> FALSE, pending |-> 0, burst |-> 0, restarted |-> TRUE]

\* load() has not run
NoLoad == [phase |-> "idle", backend |-> FALSE, link |-> "absent", share |-> "absent",
           name |-> "empty", recent |-> "empty", local |-> FALSE, selected |-> "none"]

MaxSockets == 3           \* sockets io() returns in a run

\* no socket was created yet: this.socket is null
NoSockets == [held |-> 0, live |-> [k \in 1..MaxSockets |-> "none"]]

\* checkBackend has not been called
NoProbe == [phase |-> "idle", attempt |-> 0, probes |-> 0, pauses |-> 0, ok |-> FALSE,
            checks |-> 0]

InitHandlers ==
    /\ isReloading = FALSE /\ reloadClear = FALSE /\ prompt = "null"
    /\ audit = NoAudit /\ reloadedSig = ""
    /\ reloadEmitted = FALSE /\ failedUnreachable = FALSE
    /\ lastEvent = NoEvent /\ eventsHandled = 0 /\ remoteWrites = 0

InitEvents == InitHandlers /\ emitted = NoEmit /\ debounce = NoDebounce

InitReload == InitEvents /\ loadRun = NoLoad /\ probe = NoProbe /\ ioSockets = NoSockets

\* the same, with the emits of save() and the timeouts of the autosave
\* effect recorded
InitRecorded ==
    /\ InitHandlers
    /\ emitted = [NoEmit EXCEPT !.on = TRUE]
    /\ debounce = [NoDebounce EXCEPT !.on = TRUE,
                                     !.pending = IF autosaveTimer THEN 1 ELSE 0]
    /\ loadRun = NoLoad /\ probe = NoProbe /\ ioSockets = NoSockets

InitController == InitNewDocument /\ InitReload /\ backendAvailable = TRUE

\* no configured connection: the Database opened the bundled SQLite file itself
InitFallback ==
    /\ currentConnection = 0
    /\ connectionConfig = NoConfig
    /\ sshTunnel = 0
    /\ dbHandle = "open"

\* the states the Connection Manager and Database.db can be left in
Config(e, f) == [engine |-> e, name |-> IF e = "sqlite" THEN "default" ELSE "a",
                 filePath |-> f, useSSH |-> FALSE, is_default |-> FALSE]

\* ConfigManager.init: ensureDefaultConfig left one baseline SQLite row, not default;
\* a configuration that is connected was saved by connect
InitCatalog ==
    catalog = [k \in ConfigKeys |->
                 IF k = <<"sqlite", "default">>
                 THEN [present |-> TRUE, is_default |-> FALSE, useSSH |-> FALSE,
                       filePath |-> IF connectionConfig.engine = "sqlite"
                                    THEN connectionConfig.filePath ELSE "default"]
                 ELSE IF k = <<connectionConfig.engine, connectionConfig.name>>
                 THEN [present |-> TRUE, is_default |-> FALSE, useSSH |-> FALSE,
                       filePath |-> "null"]
                 ELSE NoConfigRow]

\* the resources that go with the active connection
InitHandles ==
    /\ openConnections = IF currentConnection = 0 THEN {} ELSE {currentConnection}
    /\ openClients = {} /\ openStreams = {} /\ connectionTunnel = 0
    /\ nextHandle = currentConnection /\ nextTunnel = 0
    /\ lastCall = NoCall

InitResources ==
    /\ InitHandles
    /\ callAudit = NoCallAudit
    /\ handlers = [i \in Requests |-> NoRequest]

Backings ==
    {[conn |-> 0, cfg |-> NoConfig, db |-> h] : h \in {"open", "null"}}
    \cup {[conn |-> 1, cfg |-> Config("sqlite", f), db |-> "null"] : f \in {"default", "custom"}}
    \cup {[conn |-> 1, cfg |-> Config(e, "null"), db |-> "null"] : e \in {"mysql", "postgresql"}}

\* the bundled SQLite file already holds diagram d1 when the server starts
InitStored ==
    /\ tables = [st \in Stores |-> [i \in Diagrams |->
                    IF st = "defaultfile" /\ i = "d1"
                    THEN [title |-> "t1", database_type |-> "generic", content |-> "{c1}"]
                    ELSE NoRow]]
    /\ nullIdRows = [st \in Stores |-> 0]
    /\ written = [st \in Stores |-> [i \in Diagrams |-> NoWritten]]
    /\ lastResult = NoResult

InitSync ==
    /\ serverImpl \in ServerImpls
    /\ InitSockets /\ InitStored /\ InitFallback /\ InitController
    /\ InitCatalog /\ InitResources
    /\ InitConfigStore /\ InitRuns

InitStore ==
    /\ serverImpl = "part_011"
    /\ InitSockets /\ InitTables /\ InitController
    /\ sshTunnel = 0
    /\ \E b \in Backings :
          /\ currentConnection = b.conn
          /\ connectionConfig = b.cfg
          /\ dbHandle = b.db
    /\ InitCatalog /\ InitResources
    /\ InitConfigStore /\ InitRuns

vars == <<serverImpl, syncVars, cmVars, storeVars, clientVars, managerVars, configVars>>

----------------------------------------------------------------------------
(* Next-state relations *)

NextSync ==
    \/ \E c \in Clients : connect(c) /\ UNCHANGED <<serverImpl, cmVars, storeVars, clientVars, managerVars, configVars>>
    \/ \E c \in Clients : onConnect(c) /\ UNCHANGED <<serverImpl, cmVars, storeVars, clientVars, managerVars, configVars>>
    \/ \E c \in Clients : onDisconnect(c) /\ UNCHANGED <<serverImpl, cmVars, storeVars, clientVars, managerVars, configVars>>
    \/ \E c \in Clients : disconnectSocket(c) /\ UNCHANGED <<serverImpl, cmVars, storeVars, clientVars, managerVars, configVars>>
    \/ \E c \in Clients, d \in Diagrams :
          joinDiagram(c, d) /\ UNCHANGED <<serverImpl, cmVars, storeVars, clientVars, managerVars, configVars>>
    \/ \E c \in Clients : joinRetryFire(c) /\ UNCHANGED <<serverImpl, cmVars, storeVars, clientVars, managerVars, configVars>>
    \/ \E c \in Clients : afterSave(c) /\ UNCHANGED <<serverImpl, cmVars, storeVars, clientVars, managerVars, configVars>>
    \/ \E c \in Clients : gatewayReceive(c) /\ UNCHANGED <<serverImpl, cmVars, storeVars, clientVars, managerVars, configVars>>
    \/ \E c \in Clients :
          savePost(c) /\ UNCHANGED <<serverImpl, cmVars, dbHandle, written, lastResult, clientVars, managerVars, configVars>>
    \/ \E c \in Clients, d \in Diagrams :
          savePut(c, d) /\ UNCHANGED <<serverImpl, cmVars, dbHandle, written, lastResult, clientVars, managerVars, configVars>>

NextStore ==
    \/ \E i \in Diagrams, t \in Titles \cup {Undefined}, g \in Tags, k \in JsonContents :
          dbCreate(i, t, g, k)
    \/ \E i \in Diagrams : dbGet(i)
    \/ \E i \in Diagrams, t \in Titles \cup {Undefined}, g \in Tags, k \in JsonContents :
          dbUpdate(i, t, g, k)
    \/ \E i \in Diagrams : dbDelete(i)

SpecSync  == InitSync /\ [][NextSync]_vars
SpecStore == InitStore /\ [][NextStore]_vars

----------------------------------------------------------------------------
(* Requests to the Document API of either entry point; the client of       *)
(* part_001 sends title, databaseType and content, and no id.              *)

apiFrame == UNCHANGED <<serverImpl, syncVars, cmVars, dbHandle, clientVars, managerVars, configVars>>

\* createDiagram(title, databaseType, content) of the API client
apiPost(title, tag, content) ==
    /\ \E newId \in {i \in Diagrams : tables[ActiveStore][i] = NoRow} :
          LET resp == postDiagram(newId, Undefined, title, tag, content) IN
          StoreEffectsOf("create", IF serverImpl = "part_009" THEN newId ELSE Undefined,
                         resp.r, resp.status, tag)
    /\ apiFrame

\* getDiagram(id) of the API client
apiGet(id) ==
    /\ LET resp == getDiagramApi(id) IN StoreEffects("get", id, resp.r, resp.status)
    /\ apiFrame

\* updateDiagram(id, title, databaseType, content) of the API client
apiPut(id, title, tag, content) ==
    /\ LET resp == putDiagramApi(id, title, tag, content) IN
       StoreEffectsOf("update", id, resp.r, resp.status, tag)
    /\ apiFrame

\* deleteDiagram(id) of the API client
apiDelete(id) ==
    /\ LET resp == deleteDiagramApi(id) IN StoreEffects("delete", id, resp.r, resp.status)
    /\ apiFrame

InitApi ==
    /\ serverImpl \in ServerImpls
    /\ InitSockets /\ InitTables /\ InitController
    /\ sshTunnel = 0
    /\ IF serverImpl = "part_009"
       THEN InitFallback
       ELSE \E b \in Backings :
               /\ currentConnection = b.conn
               /\ connectionConfig = b.cfg
               /\ dbHandle = b.db
    /\ InitCatalog /\ InitResources
    /\ InitConfigStore /\ InitRuns

NextApi ==
    \/ \E t \in Titles, g \in Tags, k \in JsonContents : apiPost(t, g, k)
    \/ \E i \in Diagrams : apiGet(i)
    \/ \E i \in Diagrams, t \in Titles, g \in Tags, k \in JsonContents : apiPut(i, t, g, k)
    \/ \E i \in Diagrams : apiDelete(i)

SpecApi == InitApi /\ [][NextApi]_vars

\* the same requests to a server whose bundled SQLite file holds diagram d1
InitStoredApi ==
    /\ serverImpl \in ServerImpls
    /\ InitSockets /\ InitStored /\ InitController
    /\ sshTunnel = 0
    /\ IF serverImpl = "part_009"
       THEN InitFallback
       ELSE \E b \in Backings :
               /\ currentConnection = b.conn
               /\ connectionConfig = b.cfg
               /\ dbHandle = b.db
    /\ InitCatalog /\ InitResources
    /\ InitConfigStore /\ InitRuns

NextStoredApi ==
    \/ \E t \in Titles, g \in Tags, k \in JsonContents : apiPost(t, g, k)
    \/ \E i \in Diagrams : apiGet(i)
    \/ \E i \in Diagrams, t \in Titles, g \in Tags, k \in JsonContents : apiPut(i, t, g, k)
    \/ \E i \in Diagrams : apiDelete(i)

SpecStoredApi == InitStoredApi /\ [][NextStoredApi]_vars

----------------------------------------------------------------------------
(* Client save controller: Workspace.jsx (autosave on, no load in progress).*)
(* checkBackend chooses the storage mode; the collaboration effect listens *)
(* for 'diagram-updated' while the backend is in use. A state change       *)
(* re-renders the component and runs the effects whose dependencies        *)
(* changed, in declaration order.                                          *)

SaveStates == {"NONE", "SAVING", "SAVED", "ERROR"}

MaxEvents       == 2      \* 'diagram-updated' events the window handles
MaxRemoteWrites == 1      \* writes of other clients to the shared store

ThisClient == "A"         \* the SocketService of this window

\* const isPersisted: id is a non-empty string or a positive number
isPersisted(d) == d \in Diagrams

\* hasNoDiagramId || window.name === ''
isNewDiagram(d, w) == d \in {NewId, Undefined} \/ w = ""

\* the autosave effect: what it leaves in autosaveTimerRef
autosaveEffect(d, init, st, sig, ls, timer) ==
    IF ~isPersisted(d) THEN timer
    ELSE IF init \/ st = "SAVING" THEN timer
    ELSE IF sig = ls THEN timer          \* returns before clearTimeout
    ELSE TRUE                            \* clearTimeout, then setTimeout(..., 800)

\* whether this run of the autosave effect sets a new timeout
autosaveArms(d, init, st, sig, ls) ==
    isPersisted(d) /\ ~init /\ st # "SAVING" /\ sig # ls

MaxBurst == 3             \* edits counted in one burst

\* if (autosaveTimerRef.current) clearTimeout(autosaveTimerRef.current):
\* the timeouts still pending, given whether the one in the ref is
clearTimeout(pending, refPending) == IF refPending THEN pending - 1 ELSE pending

\* autosaveTimerRef.current = setTimeout(..., 800)
setTimeout(pending) == pending + 1

\* the timeouts of the autosave effect after one render: `fired` when the
\* render follows a timeout's callback, `edited` when it follows a change of
\* the content by the user, `arms` when the effect reaches its setTimeout and
\* `timer` whether the timeout in autosaveTimerRef was still pending. An
\* edit belongs to a burst when the timeout an earlier edit set is pending.
autosaveTimeouts(fired, edited, arms, timer) ==
    LET inBurst == debounce.burst >= 1 /\ timer
        waiting == IF fired THEN debounce.pending - 1 ELSE debounce.pending
    IN IF ~debounce.on THEN debounce ELSE
       [on |-> TRUE,
        pending |-> IF arms THEN setTimeout(clearTimeout(waiting, timer)) ELSE waiting,
        burst |-> IF fired THEN 0
                  ELSE IF edited
                       THEN (IF inBurst
                             THEN (IF debounce.burst < MaxBurst THEN debounce.burst + 1
                                   ELSE MaxBurst)
                             ELSE IF arms THEN 1 ELSE 0)
                  ELSE IF arms THEN 0
                  ELSE debounce.burst,
        restarted |-> IF fired THEN TRUE
                      ELSE IF edited THEN (IF inBurst THEN debounce.restarted /\ arms ELSE TRUE)
                      ELSE IF arms THEN TRUE
                      ELSE debounce.restarted]

\* the branch of save() that runs: `useBackendStorage && backendAvailable`
\* selects the API, otherwise db.diagrams of the browser
SaveKind(d, w, backend) ==
    IF backend
    THEN (IF isNewDiagram(d, w) THEN "create" ELSE "update")
    ELSE (IF d = NewId /\ w = "" THEN "localAdd" ELSE "localUpdate")

RemoteKinds == {"create", "update", "fallback"}

\* save(): the request it sends before its first await; `reloading` is the
\* isReloading of the render whose save callback runs
save(d, w, sig, trigger, ls, backend, reloading) ==
    [no |-> reqNo + 1,
     kind |-> SaveKind(d, w, backend),
     id |-> d, content |-> sig,
     trigger |-> trigger, unchanged |-> (sig = ls),
     reloading |-> reloading,
     byReload |-> (trigger = "reload"
                   \/ (trigger = "timer" /\ audit.armedBy = "reload" /\ sig = reloadedSig))]

\* the render after a state change and the effects it runs: the autosave
\* effect, then useEffect(() => { if (saveState === State.SAVING) save(); },
\* [saveState, save]); `flying` are the requests still awaited. The action
\* that commits fixes isReloading' and backendAvailable' first.
commit(d, w, st, sig, ls, init, timer, flying, trigger) ==
    LET autosaveRuns == <<sig, st, isPersisted(d), init>>
                          # <<contentSignature, saveState, isPersisted(docId), isInitialLoad>>
        arms == autosaveRuns /\ autosaveArms(d, init, st, sig, ls)
        saveRuns == <<st, sig, d, backendAvailable'>>
                      # <<saveState, contentSignature, docId, backendAvailable>>
        calls == saveRuns /\ st = "SAVING"
        req == save(d, w, sig, trigger, ls, backendAvailable', isReloading')
    IN /\ docId' = d /\ windowName' = w /\ saveState' = st
       /\ contentSignature' = sig /\ lastSavedSignature' = ls /\ isInitialLoad' = init
       /\ autosaveTimer' = IF autosaveRuns THEN autosaveEffect(d, init, st, sig, ls, timer)
                           ELSE timer
       /\ debounce' = autosaveTimeouts(trigger = "timer",
                                       trigger = "rerender" /\ sig # contentSignature,
                                       arms, timer)
       /\ UNCHANGED <<loadRun, probe, ioSockets>>
       /\ calls => reqNo < MaxRequests
       /\ inflight' = IF calls THEN flying \cup {req} ELSE flying
       /\ reqNo' = IF calls THEN reqNo + 1 ELSE reqNo
       /\ createRequests' = IF calls /\ req.kind = "create" THEN createRequests + 1
                            ELSE createRequests
       /\ lastWrite' = IF calls THEN [kind |-> req.kind, trigger |-> req.trigger,
                                      unchanged |-> req.unchanged]
                       ELSE lastWrite
       /\ audit' = [armedBy |-> IF arms THEN trigger
                                ELSE IF trigger = "timer" THEN "none"
                                ELSE audit.armedBy,
                    reloadWrote |-> audit.reloadWrote \/ (calls /\ req.byReload),
                    remoteAfterFailure |->
                        audit.remoteAfterFailure
                        \/ (calls /\ failedUnreachable /\ req.kind \in RemoteKinds),
                    edited |-> audit.edited
                               \/ (trigger = "rerender" /\ sig # contentSignature)]

\* the user edits the diagram, or undoes an edit
edit(sig) ==
    /\ sig # contentSignature
    /\ UNCHANGED <<isReloading, backendAvailable>>
    /\ commit(docId, windowName, saveState, sig, lastSavedSignature, isInitialLoad,
              autosaveTimer, inflight, "rerender")
    /\ reloadedSig' = ""
    /\ UNCHANGED <<idSets, notFound, startedNew, commanded>>
    /\ UNCHANGED <<reloadClear, prompt, reloadEmitted, emitted, failedUnreachable, lastEvent,
                   eventsHandled, remoteWrites>>
    /\ UNCHANGED <<serverImpl, syncVars, cmVars, storeVars, managerVars, configVars>>

\* the autosave timeout fires: setSaveState(State.SAVING)
autosaveFire ==
    /\ autosaveTimer
    /\ UNCHANGED <<isReloading, backendAvailable>>
    /\ commit(docId, windowName, "SAVING", contentSignature, lastSavedSignature,
              isInitialLoad, FALSE, inflight, "timer")
    /\ UNCHANGED <<idSets, notFound, startedNew, commanded>>
    /\ UNCHANGED <<reloadClear, prompt, reloadedSig, reloadEmitted, emitted, failedUnreachable,
                   lastEvent, eventsHandled, remoteWrites>>
    /\ UNCHANGED <<serverImpl, syncVars, cmVars, storeVars, managerVars, configVars>>

\* another component sets the shared save state to SAVING (a save command)
requestSave ==
    /\ saveState # "SAVING"
    /\ UNCHANGED <<isReloading, backendAvailable>>
    /\ commit(docId, windowName, "SAVING", contentSignature, lastSavedSignature,
              isInitialLoad, autosaveTimer, inflight, "command")
    /\ commanded' = TRUE
    /\ UNCHANGED <<idSets, notFound, startedNew>>
    /\ UNCHANGED <<reloadClear, prompt, reloadedSig, reloadEmitted, emitted, failedUnreachable,
                   lastEvent, eventsHandled, remoteWrites>>
    /\ UNCHANGED <<serverImpl, syncVars, cmVars, storeVars, managerVars, configVars>>

\* every branch of save emits the change `if (!isReloading)`; a request that
\* a reload caused and that emits is a broadcast by the reloading window
EmitsAfter(req) == reloadEmitted \/ (req.byReload /\ ~req.reloading)

\* a write was answered with success: `if (!isReloading)` with the isReloading
\* of the render that created the save callback decides whether
\* socketService.emitDiagramUpdate runs
EmitRecord(req) ==
    IF ~emitted.on THEN emitted ELSE
    [on |-> TRUE,
     acked |-> emitted.acked + 1,
     sent |-> IF req.reloading THEN emitted.sent ELSE emitted.sent + 1,
     duringReload |-> emitted.duringReload \/ (~req.reloading /\ isReloading)]

\* a response of createDiagram arrives: the create branch of save, or its catch
createResponds(req) ==
    /\ req \in inflight /\ req.kind \in {"create", "fallback"}
    /\ UNCHANGED <<isReloading, backendAvailable>>
    /\ \E newId \in {i \in Diagrams : tables[ActiveStore][i] = NoRow} :
          LET resp == postDiagram(newId, Undefined, "t1", "generic", req.content) IN
          /\ StoreWrite(resp.r)
          /\ IF resp.status \in {200, 201}
             THEN /\ commit(resp.r.id, resp.r.id, "SAVED", contentSignature, req.content,
                            FALSE, autosaveTimer, inflight \ {req}, "rerender")
                  /\ idSets' = idSets + 1
                  /\ reloadEmitted' = EmitsAfter(req)
                  /\ emitted' = EmitRecord(req)
                  /\ notFound' = IF req.kind = "fallback"
                                 THEN [phase |-> "handled", creates |-> 1,
                                       saveState |-> "SAVED", identity |-> resp.r.id]
                                 ELSE notFound
             ELSE /\ commit(docId, windowName, "ERROR", contentSignature,
                            lastSavedSignature, isInitialLoad, autosaveTimer,
                            inflight \ {req}, "rerender")
                  /\ idSets' = idSets
                  /\ UNCHANGED <<reloadEmitted, emitted>>
                  /\ notFound' = IF req.kind = "fallback"
                                 THEN [phase |-> "handled", creates |-> 1,
                                       saveState |-> "ERROR", identity |-> docId]
                                 ELSE notFound
    /\ UNCHANGED <<startedNew, commanded>>
    /\ UNCHANGED <<reloadClear, prompt, reloadedSig, failedUnreachable,
                   lastEvent, eventsHandled, remoteWrites>>
    /\ UNCHANGED <<serverImpl, syncVars, cmVars, dbHandle, written, lastResult, managerVars, configVars>>

\* a response of updateDiagram arrives: the update branch of save, its 404
\* fallback (a createDiagram request), or its catch
updateResponds(req) ==
    /\ req \in inflight /\ req.kind = "update"
    /\ UNCHANGED <<isReloading, backendAvailable>>
    /\ LET resp == putDiagram(req.id, "t1", "generic", req.content)
           absent == resp.r.err = "Diagram not found"
       IN /\ StoreWrite(resp.r)
          /\ IF resp.status = 200
             THEN /\ commit(docId, windowName, "SAVED", contentSignature, req.content,
                            isInitialLoad, autosaveTimer, inflight \ {req}, "rerender")
                  /\ reloadEmitted' = EmitsAfter(req)
                  /\ emitted' = EmitRecord(req)
                  /\ UNCHANGED <<notFound>>
             ELSE IF resp.status = 404
             THEN /\ reqNo < MaxRequests
                  /\ inflight' = (inflight \ {req}) \cup
                                   {[no |-> reqNo + 1, kind |-> "fallback", id |-> req.id,
                                     content |-> req.content, trigger |-> "fallback",
                                     unchanged |-> req.unchanged,
                                     reloading |-> req.reloading,
                                     byReload |-> req.byReload]}
                  /\ reqNo' = reqNo + 1
                  /\ createRequests' = createRequests + 1
                  /\ notFound' = [phase |-> "creating", creates |-> 1,
                                  saveState |-> saveState, identity |-> docId]
                  /\ UNCHANGED <<docId, windowName, saveState, contentSignature,
                                 lastSavedSignature, autosaveTimer, debounce, loadRun, probe, ioSockets, isInitialLoad,
                                 lastWrite, audit, reloadEmitted, emitted>>
             ELSE /\ commit(docId, windowName, "ERROR", contentSignature,
                            lastSavedSignature, isInitialLoad, autosaveTimer,
                            inflight \ {req}, "rerender")
                  /\ notFound' = IF absent
                                 THEN [phase |-> "handled", creates |-> 0,
                                       saveState |-> "ERROR", identity |-> docId]
                                 ELSE notFound
                  /\ UNCHANGED <<reloadEmitted, emitted>>
    /\ UNCHANGED <<idSets, startedNew, commanded>>
    /\ UNCHANGED <<reloadClear, prompt, reloadedSig, failedUnreachable, lastEvent,
                   eventsHandled, remoteWrites>>
    /\ UNCHANGED <<serverImpl, syncVars, cmVars, dbHandle, written, lastResult, managerVars, configVars>>

\* no response at all: the request of save() met a network error, which has
\* no error.response and lands in the catch of save
requestFails(req) ==
    /\ req \in inflight /\ req.kind \in RemoteKinds
    /\ UNCHANGED <<isReloading, backendAvailable>>
    /\ commit(docId, windowName, "ERROR", contentSignature, lastSavedSignature,
              isInitialLoad, autosaveTimer, inflight \ {req}, "rerender")
    /\ failedUnreachable' = TRUE
    /\ notFound' = IF req.kind = "fallback"
                   THEN [phase |-> "handled", creates |-> 1,
                         saveState |-> "ERROR", identity |-> docId]
                   ELSE notFound
    /\ UNCHANGED <<idSets, startedNew, commanded>>
    /\ UNCHANGED <<reloadClear, prompt, reloadedSig, reloadEmitted, emitted, lastEvent,
                   eventsHandled, remoteWrites>>
    /\ UNCHANGED <<serverImpl, syncVars, cmVars, storeVars, managerVars, configVars>>

\* db.diagrams.add / db.diagrams.update of the browser resolves: the local
\* branch of save; newId is the key IndexedDB assigned
localResponds(req) ==
    /\ req \in inflight /\ req.kind \in {"localAdd", "localUpdate"}
    /\ UNCHANGED <<isReloading, backendAvailable>>
    /\ IF req.kind = "localAdd"
       THEN \E newId \in Diagrams :
               /\ commit(newId, newId, "SAVED", contentSignature, req.content, FALSE,
                         autosaveTimer, inflight \ {req}, "rerender")
               /\ idSets' = idSets + 1
       ELSE /\ commit(docId, windowName, "SAVED", contentSignature, req.content,
                      isInitialLoad, autosaveTimer, inflight \ {req}, "rerender")
            /\ idSets' = idSets
    /\ UNCHANGED <<notFound, startedNew, commanded>>
    /\ UNCHANGED <<reloadClear, prompt, reloadedSig, reloadEmitted, emitted, failedUnreachable,
                   lastEvent, eventsHandled, remoteWrites>>
    /\ UNCHANGED <<serverImpl, syncVars, cmVars, storeVars, managerVars, configVars>>

\* checkBackend finds the health endpoint. It runs when its effect runs (at
\* mount and when backendAvailable changed) and from the interval, which
\* calls it only while backendAvailable is false: once the mode has settled
\* on the backend nothing checks the health again. The step is the check
\* that settles on the backend; the collaboration effect then runs
\* socketService.connect()
checkBackend ==
    /\ ~backendAvailable
    /\ backendAvailable' = TRUE
    /\ UNCHANGED isReloading
    /\ commit(docId, windowName, saveState, contentSignature, lastSavedSignature,
              isInitialLoad, autosaveTimer, inflight, "rerender")
    /\ connect(ThisClient)
    /\ UNCHANGED <<idSets, notFound, startedNew, commanded>>
    /\ UNCHANGED <<reloadClear, prompt, reloadedSig, reloadEmitted, emitted, failedUnreachable,
                   lastEvent, eventsHandled, remoteWrites>>
    /\ UNCHANGED <<serverImpl, cmVars, storeVars, managerVars, configVars>>

\* another client's save reaches the shared store
remoteUpdate(id, content) ==
    /\ remoteWrites < MaxRemoteWrites
    /\ LET resp == putDiagram(id, "t1", "generic", content) IN
       /\ resp.status = 200
       /\ StoreWrite(resp.r)
    /\ remoteWrites' = remoteWrites + 1
    /\ UNCHANGED <<docId, windowName, saveState, contentSignature, lastSavedSignature,
                   autosaveTimer, debounce, loadRun, probe, ioSockets, isInitialLoad, inflight, reqNo, createRequests, idSets,
                   lastWrite, notFound, startedNew, commanded, isReloading, reloadClear,
                   prompt, backendAvailable, audit, reloadedSig, reloadEmitted, emitted,
                   failedUnreachable, lastEvent, eventsHandled>>
    /\ UNCHANGED <<serverImpl, syncVars, cmVars, dbHandle, written, lastResult, managerVars, configVars>>

\* a mutation: the sender of the event is not looked at
FromAnyClient(updatedBy, currentSocketId) == TRUE

\* if (data.updatedBy && data.updatedBy !== currentSocketId)
FromAnotherClient(updatedBy, currentSocketId) ==
    updatedBy # 0 /\ updatedBy # currentSocketId

\* the reload of updateDiagram / onOk: setIsReloading(true), getDiagram(id),
\* the setters of id, title and content, window.name, and in `finally` the
\* 1000 ms timeout that clears isReloading. A diagram that cannot be read
\* leaves the document as it is.
reload(id) ==
    LET got == getDiagramApi(id)
        loads == got.status = 200 /\ got.r.row.content \in JsonContents
    IN /\ isReloading' = TRUE
       /\ reloadClear' = TRUE
       /\ UNCHANGED backendAvailable
       /\ IF loads
          THEN /\ commit(id, id, saveState, got.r.row.content, lastSavedSignature,
                         isInitialLoad, autosaveTimer, inflight, "reload")
               /\ reloadedSig' = got.r.row.content
          ELSE /\ commit(docId, windowName, saveState, contentSignature,
                         lastSavedSignature, isInitialLoad, autosaveTimer, inflight,
                         "reload")
               /\ reloadedSig' = reloadedSig

\* what the handling of an event did to the document and its reload state
DocumentState == <<docId, windowName, contentSignature, isReloading, reloadClear, prompt>>

\* socketService.onDiagramUpdate((data) => ...): `auto` is
\* isLoaded && settings.autoUpdateOnCollaboration === true
onDiagramUpdate(data, auto) ==
    /\ backendAvailable /\ Connected(ThisClient)
    /\ eventsHandled < MaxEvents
    /\ eventsHandled' = eventsHandled + 1
    /\ LET currentSocketId == socketId[ThisClient] IN
       /\ IF FromAnotherClient(data.updatedBy, currentSocketId)
          THEN IF auto
               THEN /\ reload(data.diagramId)
                    /\ UNCHANGED prompt
               ELSE /\ prompt' = data.diagramId
                    /\ UNCHANGED <<docId, windowName, saveState, contentSignature,
                                   lastSavedSignature, autosaveTimer, debounce, loadRun, probe, ioSockets, isInitialLoad,
                                   inflight, reqNo, createRequests, lastWrite, audit,
                                   isReloading, reloadClear, backendAvailable,
                                   reloadedSig>>
          ELSE UNCHANGED <<docId, windowName, saveState, contentSignature,
                           lastSavedSignature, autosaveTimer, debounce, loadRun, probe, ioSockets, isInitialLoad, inflight,
                           reqNo, createRequests, lastWrite, audit, isReloading,
                           reloadClear, backendAvailable, reloadedSig, prompt>>
       /\ lastEvent' = [updatedBy |-> data.updatedBy, own |-> currentSocketId,
                        effect |-> IF isReloading' # isReloading \/ reloadClear' # reloadClear
                                      \/ reqNo' # reqNo
                                      \/ <<docId', windowName', contentSignature'>>
                                           # <<docId, windowName, contentSignature>>
                                   THEN "reload"
                                   ELSE IF prompt' # prompt THEN "prompt"
                                   ELSE "ignored"]
    /\ UNCHANGED <<idSets, notFound, startedNew, commanded>>
    /\ UNCHANGED <<reloadEmitted, emitted, failedUnreachable, remoteWrites>>
    /\ UNCHANGED <<serverImpl, syncVars, cmVars, storeVars, managerVars, configVars>>

\* the user presses the button of the notification: onOk reloads
promptOk ==
    /\ prompt # "null"
    /\ reload(prompt)
    /\ prompt' = "null"
    /\ UNCHANGED <<idSets, notFound, startedNew, commanded>>
    /\ UNCHANGED <<reloadEmitted, emitted, failedUnreachable, lastEvent, eventsHandled,
                   remoteWrites>>
    /\ UNCHANGED <<serverImpl, syncVars, cmVars, storeVars, managerVars, configVars>>

\* the 1000 ms timeout of a reload runs setIsReloading(false); an autosave
\* timeout the same reload armed (800 ms) has run by then. isReloading is
\* no dependency of save or of an effect.
clearReloading ==
    /\ reloadClear
    /\ ~(autosaveTimer /\ audit.armedBy = "reload")
    /\ isReloading' = FALSE
    /\ reloadClear' = FALSE
    /\ UNCHANGED <<docId, windowName, saveState, contentSignature, lastSavedSignature,
                   autosaveTimer, debounce, loadRun, probe, ioSockets, isInitialLoad, inflight, reqNo, createRequests, idSets,
                   lastWrite, notFound, startedNew, commanded, prompt, backendAvailable,
                   audit, reloadedSig, reloadEmitted, emitted, failedUnreachable, lastEvent,
                   eventsHandled, remoteWrites>>
    /\ UNCHANGED <<serverImpl, syncVars, cmVars, storeVars, managerVars, configVars>>

\* Workspace as mounted after a diagram was loaded: id and window.name set,
\* isInitialLoad cleared, and the autosave effect has armed its timer because
\* lastSavedSignatureRef is still ""
InitLoadedDocument ==
    /\ docId \in Diagrams /\ windowName = docId
    /\ saveState = "NONE"
    /\ contentSignature = "c1" /\ lastSavedSignature = ""
    /\ autosaveTimer = TRUE /\ isInitialLoad = FALSE
    /\ inflight = {} /\ reqNo = 0
    /\ createRequests = 0 /\ idSets = 0
    /\ lastWrite = NoWrite /\ notFound = NoNotFound
    /\ startedNew = FALSE /\ commanded = FALSE

\* the SocketService of this window after the first checkBackend: connect()
\* was called if the health endpoint answered
InitWindowSockets ==
    /\ socket = [c \in Clients |-> IF c = ThisClient /\ backendAvailable
                                   THEN "open" ELSE "null"]
    /\ socketId = [c \in Clients |-> 0]
    /\ isConnected = [c \in Clients |-> FALSE]
    /\ currentDiagramId = [c \in Clients |-> "null"]
    /\ joinRetry = [c \in Clients |-> "null"]
    /\ saved = [c \in Clients |-> NoSaved]
    /\ nextSocketId = 0
    /\ rooms = [d \in RoomIds |-> {}]
    /\ wire = [c \in Clients |-> <<>>]
    /\ delivered = {}
    /\ nextChange = 0
    /\ lastHandled = NoHandled

InitClient ==
    /\ serverImpl \in ServerImpls
    /\ backendAvailable \in BOOLEAN
    /\ InitWindowSockets /\ InitFallback
    /\ InitTables \/ InitStored
    /\ InitNewDocument \/ InitLoadedDocument
    /\ InitReload
    /\ InitCatalog /\ InitResources
    /\ InitConfigStore /\ InitRuns

UpdateEvents == [diagramId : Diagrams, updatedBy : 0..MaxSocketIds]

NextClient ==
    \/ \E sig \in JsonContents : edit(sig)
    \/ autosaveFire
    \/ requestSave
    \/ \E req \in inflight : createResponds(req)
    \/ \E req \in inflight : updateResponds(req)
    \/ \E req \in inflight : requestFails(req)
    \/ \E req \in inflight : localResponds(req)
    \/ checkBackend

SpecClient == InitClient /\ [][NextClient]_vars

\* the window with a stored diagram open whose first autosave has completed
InitSavedDocument ==
    /\ docId = "d1" /\ windowName = docId
    /\ saveState = "SAVED"
    /\ contentSignature = "c1" /\ lastSavedSignature = "c1"
    /\ autosaveTimer = FALSE /\ isInitialLoad = FALSE
    /\ inflight = {} /\ reqNo = 1
    /\ createRequests = 0 /\ idSets = 0
    /\ lastWrite = [kind |-> "update", trigger |-> "timer", unchanged |-> FALSE]
    /\ notFound = NoNotFound
    /\ startedNew = FALSE /\ commanded = FALSE

\* the SocketService of the window once the gateway gave it a connection id
InitConnectedSocket ==
    /\ socket = [c \in Clients |-> IF c = ThisClient THEN "open" ELSE "null"]
    /\ socketId = [c \in Clients |-> IF c = ThisClient THEN 1 ELSE 0]
    /\ isConnected = [c \in Clients |-> c = ThisClient]
    /\ currentDiagramId = [c \in Clients |-> "null"]
    /\ joinRetry = [c \in Clients |-> "null"]
    /\ saved = [c \in Clients |-> NoSaved]
    /\ nextSocketId = 1
    /\ rooms = [d \in RoomIds |-> {}]
    /\ wire = [c \in Clients |-> <<>>]
    /\ delivered = {}
    /\ nextChange = 0
    /\ lastHandled = NoHandled

\* collaboration: the backend is in use, the socket is connected and the
\* diagram that is open is stored as it was last saved
InitCollaboration ==
    /\ serverImpl \in ServerImpls
    /\ backendAvailable = TRUE
    /\ InitConnectedSocket /\ InitFallback
    /\ InitStored
    /\ InitSavedDocument
    /\ InitReload
    /\ InitCatalog /\ InitResources
    /\ InitConfigStore /\ InitRuns

NextCollaboration ==
    \/ \E sig \in JsonContents : edit(sig)
    \/ autosaveFire
    \/ \E req \in inflight : updateResponds(req)
    \/ \E i \in Diagrams, content \in JsonContents : remoteUpdate(i, content)
    \/ \E data \in UpdateEvents, auto \in BOOLEAN : onDiagramUpdate(data, auto)
    \/ promptOk
    \/ clearReloading

SpecCollaboration == InitCollaboration /\ [][NextCollaboration]_vars

\* the same window, with its emits and its autosave timeouts recorded
InitWindow ==
    /\ serverImpl \in ServerImpls
    /\ backendAvailable = TRUE
    /\ InitConnectedSocket /\ InitFallback
    /\ InitStored
    /\ InitSavedDocument
    /\ InitRecorded
    /\ InitCatalog /\ InitResources
    /\ InitConfigStore /\ InitRuns

NextWindow ==
    \/ \E sig \in JsonContents : edit(sig)
    \/ autosaveFire
    \/ \E req \in inflight : updateResponds(req)
    \/ \E i \in Diagrams, content \in JsonContents : remoteUpdate(i, content)
    \/ \E data \in UpdateEvents, auto \in BOOLEAN : onDiagramUpdate(data, auto)
    \/ promptOk
    \/ clearReloading

SpecWindow == InitWindow /\ [][NextWindow]_vars

----------------------------------------------------------------------------
(* The save controller left alone: a stored document is open (just loaded,  *)
(* or saved once already), the backend                                      *)
(* answers every update, and the user stops editing once the window has     *)
(* sent QuietAfter requests. A timeout that is pending fires and a request   *)
(* in flight is answered, hence the fairness conditions.                    *)

QuietAfter == 2           \* requests after which no edit is made

editUntilQuiet(sig) ==
    /\ reqNo < QuietAfter
    /\ edit(sig)

InitQuiescence ==
    /\ serverImpl \in ServerImpls
    /\ backendAvailable = TRUE
    /\ InitConnectedSocket /\ InitFallback
    /\ InitStored
    /\ (InitLoadedDocument /\ docId = "d1") \/ InitSavedDocument
    /\ InitRecorded
    /\ InitCatalog /\ InitResources
    /\ InitConfigStore /\ InitRuns

NextQuiescence ==
    \/ \E sig \in JsonContents : editUntilQuiet(sig)
    \/ autosaveFire
    \/ \E req \in inflight : updateResponds(req)

SpecQuiescence ==
    /\ InitQuiescence /\ [][NextQuiescence]_vars
    /\ WF_vars(autosaveFire)
    /\ WF_vars(\E req \in inflight : updateResponds(req))

----------------------------------------------------------------------------
(* checkBackend of Workspace.jsx: the effect calls it at mount and whenever *)
(* backendAvailable changed, the 30 s interval while backendAvailable is    *)
(* false. No save is in progress, so the render that follows a change of    *)
(* backendAvailable runs only the collaboration effect.                     *)

Attempts  == 3            \* for (let attempt = 1; attempt <= 3; attempt++)
MaxChecks == 3            \* calls of checkBackend

\* a mutation: one more attempt
retriesOnceMore(attempt) == attempt < Attempts + 1

\* whether the loop goes on after a failed attempt: `if (attempt < 3)` waits
\* one second, then attempt++ and `attempt <= 3`
retries(attempt) == attempt < Attempts

healthFrame == UNCHANGED <<docId, windowName, saveState, contentSignature,
                           lastSavedSignature, autosaveTimer, isInitialLoad, inflight,
                           reqNo, createRequests, idSets, lastWrite, notFound, startedNew,
                           commanded, isReloading, reloadClear, prompt, audit, reloadedSig,
                           reloadEmitted, emitted, failedUnreachable, lastEvent,
                           eventsHandled, remoteWrites, debounce, loadRun, ioSockets, serverImpl,
                           cmVars, storeVars, managerVars, configVars>>

\* checkBackend(): called by the effect (first run, or backendAvailable
\* changed since the last call) or by the interval (backendAvailable false)
checkBackendStarts ==
    /\ probe.phase \in {"idle", "done"}
    /\ probe.checks < MaxChecks
    /\ probe' = [phase |-> "probing", attempt |-> 1, probes |-> 0, pauses |-> 0,
                 ok |-> FALSE, checks |-> probe.checks + 1]
    /\ UNCHANGED <<backendAvailable, syncVars>>
    /\ healthFrame

\* await healthCheck() of the current attempt answers or throws; the last
\* one is followed by setBackendAvailable / setUseBackendStorage and by the
\* collaboration effect: socketService.connect() or its cleanup
healthCheckAnswers(ok) ==
    /\ probe.phase = "probing"
    /\ LET done == ok \/ ~retries(probe.attempt) IN
       /\ probe' = [probe EXCEPT !.phase = IF done THEN "done" ELSE "pausing",
                                 !.probes = probe.probes + 1,
                                 !.ok = ok]
       /\ backendAvailable' = IF done THEN ok ELSE backendAvailable
       /\ IF done /\ ok /\ ~backendAvailable /\ ~Connected(ThisClient)
          THEN connect(ThisClient)
          ELSE IF done /\ ~ok /\ backendAvailable /\ socket[ThisClient] = "open"
          THEN disconnectSocket(ThisClient)
          ELSE UNCHANGED syncVars
    /\ healthFrame

\* await new Promise(resolve => setTimeout(resolve, 1000)), then attempt++
pauseElapses ==
    /\ probe.phase = "pausing"
    /\ probe' = [probe EXCEPT !.phase = "probing", !.attempt = probe.attempt + 1,
                              !.pauses = probe.pauses + 1]
    /\ UNCHANGED <<backendAvailable, syncVars>>
    /\ healthFrame

\* Workspace at mount: backendAvailable and useBackendStorage are false
InitHealth ==
    /\ serverImpl \in ServerImpls
    /\ backendAvailable = FALSE
    /\ InitWindowSockets /\ InitFallback
    /\ InitTables \/ InitStored
    /\ InitNewDocument \/ InitLoadedDocument
    /\ InitReload
    /\ InitCatalog /\ InitResources
    /\ InitConfigStore /\ InitRuns

NextHealth ==
    \/ checkBackendStarts
    \/ \E ok \in BOOLEAN : healthCheckAnswers(ok)
    \/ pauseElapses

SpecHealth == InitHealth /\ [][NextHealth]_vars

----------------------------------------------------------------------------
\* SocketService and the sockets io() hands to it (src/unnamed/part_003).
\* A socket io() returned stays live, connecting and reconnecting by itself,
\* until disconnect() is called on it; the handlers connect() registers on
\* a socket assign the isConnected field of the service, whichever socket
\* raises the event.

socketFrame == UNCHANGED <<docId, windowName, saveState, contentSignature,
                           lastSavedSignature, autosaveTimer, isInitialLoad, inflight,
                           reqNo, createRequests, idSets, lastWrite, notFound, startedNew,
                           commanded, backendAvailable, isReloading, reloadClear, prompt,
                           audit, reloadedSig, reloadEmitted, emitted, failedUnreachable,
                           lastEvent, eventsHandled, remoteWrites, debounce, loadRun,
                           probe, serverImpl, cmVars, storeVars, managerVars, configVars>>

FreeSockets == {k \in 1..MaxSockets : ioSockets.live[k] = "none"}

LiveSockets == {k \in 1..MaxSockets : ioSockets.live[k] \in {"pending", "connected"}}

\* this.socket = io(backendUrl, {...}): a new socket, held from now on; the
\* socket held before is not closed
io ==
    LET k == CHOOSE n \in FreeSockets : \A m \in FreeSockets : n <= m
    IN  [held |-> k, live |-> [ioSockets.live EXCEPT ![k] = "pending"]]

\* SocketService.connect()
serviceConnect ==
    /\ FreeSockets # {}
    /\ connect(ThisClient)
    /\ ioSockets' = io
    /\ socketFrame

\* SocketService.joinDiagram(diagramId)
serviceJoinDiagram(d) ==
    /\ joinDiagram(ThisClient, d)
    /\ IF ~Connected(ThisClient)
       THEN FreeSockets # {} /\ ioSockets' = io
       ELSE UNCHANGED ioSockets
    /\ socketFrame

\* setTimeout(() => this.joinDiagram(diagramId), 1000) fires
serviceJoinRetry ==
    /\ joinRetryFire(ThisClient)
    /\ IF ~Connected(ThisClient)
       THEN FreeSockets # {} /\ ioSockets' = io
       ELSE UNCHANGED ioSockets
    /\ socketFrame

\* socket k raises 'connect': this.isConnected = true
ioConnect(k) ==
    /\ ioSockets.live[k] = "pending"
    /\ nextSocketId < MaxSocketIds
    /\ nextSocketId' = nextSocketId + 1
    /\ ioSockets' = [ioSockets EXCEPT !.live[k] = "connected"]
    /\ isConnected' = [isConnected EXCEPT ![ThisClient] = TRUE]
    /\ socketId' = [socketId EXCEPT ![ThisClient] = IF k = ioSockets.held
                                                    THEN nextSocketId + 1 ELSE @]
    /\ UNCHANGED <<socket, currentDiagramId, joinRetry, saved, gatewayVars>>
    /\ socketFrame

\* socket k raises 'disconnect' and starts to reconnect:
\* this.isConnected = false
ioDisconnect(k) ==
    /\ ioSockets.live[k] = "connected"
    /\ ioSockets' = [ioSockets EXCEPT !.live[k] = "pending"]
    /\ isConnected' = [isConnected EXCEPT ![ThisClient] = FALSE]
    /\ rooms' = IF k = ioSockets.held THEN DropFromRooms(socketId[ThisClient]) ELSE rooms
    /\ UNCHANGED <<socket, socketId, currentDiagramId, joinRetry, saved, nextSocketId,
                   wire, delivered, nextChange, lastHandled>>
    /\ socketFrame

\* socket k raises 'connect_error': this.isConnected = false
ioConnectError(k) ==
    /\ ioSockets.live[k] = "pending"
    /\ isConnected[ThisClient]
    /\ isConnected' = [isConnected EXCEPT ![ThisClient] = FALSE]
    /\ UNCHANGED <<socket, socketId, currentDiagramId, joinRetry, saved, nextSocketId,
                   gatewayVars, ioSockets>>
    /\ socketFrame

\* SocketService.disconnect(): this.socket.disconnect(); this.socket = null
serviceDisconnect ==
    /\ disconnectSocket(ThisClient)
    /\ ioSockets' = [held |-> 0,
                     live |-> [ioSockets.live EXCEPT ![ioSockets.held] = "closed"]]
    /\ socketFrame

InitSocket ==
    /\ serverImpl \in ServerImpls
    /\ backendAvailable = TRUE
    /\ InitSockets /\ InitFallback
    /\ InitTables \/ InitStored
    /\ InitNewDocument
    /\ InitReload
    /\ InitCatalog /\ InitResources
    /\ InitConfigStore /\ InitRuns

NextSocket ==
    \/ serviceConnect
    \/ \E d \in Diagrams : serviceJoinDiagram(d)
    \/ serviceJoinRetry
    \/ \E k \in 1..MaxSockets : ioConnect(k)
    \/ \E k \in 1..MaxSockets : ioDisconnect(k)
    \/ \E k \in 1..MaxSockets : ioConnectError(k)
    \/ serviceDisconnect

SpecSocket == InitSocket /\ [][NextSocket]_vars

----------------------------------------------------------------------------
(* load() of Workspace.jsx on mount: the identity sources it consults. The  *)
(* run records what each store would answer: `link` and `share` for the     *)
(* diagramId and shareId of the URL, `name` for the document window.name    *)
(* names ("backend" or "local": the store that has it), `recent` for        *)
(* getRecentDiagrams of the backend and `local` for db.diagrams.            *)

LinkAnswers   == {"absent", "found", "fails"}
NameAnswers   == {"empty", "backend", "local", "missing"}
RecentAnswers == {"found", "empty", "fails"}

LoadRuns == [phase : {"diagramId"}, backend : BOOLEAN, link : LinkAnswers,
             share : LinkAnswers, name : NameAnswers, recent : RecentAnswers,
             local : BOOLEAN, selected : {"none"}]

loadFrame == UNCHANGED <<docId, windowName, saveState, contentSignature, lastSavedSignature,
                         autosaveTimer, isInitialLoad, inflight, reqNo, createRequests,
                         idSets, lastWrite, notFound, startedNew, commanded,
                         backendAvailable, isReloading, reloadClear, prompt, audit,
                         reloadedSig, reloadEmitted, emitted, failedUnreachable, lastEvent,
                         eventsHandled, remoteWrites, debounce, probe, ioSockets, serverImpl,
                         syncVars, cmVars, storeVars, managerVars, configVars>>

Selects(source) == loadRun' = [loadRun EXCEPT !.phase = "done", !.selected = source]
Continues(phase) == loadRun' = [loadRun EXCEPT !.phase = phase]

\* if (diagramId && useBackendStorage && backendAvailable): getDiagram, then
\* return; the catch block falls out of the branch
loadDiagramId ==
    /\ loadRun.phase = "diagramId"
    /\ IF loadRun.link # "absent" /\ loadRun.backend /\ loadRun.link = "found"
       THEN Selects("diagramId")
       ELSE Continues("shareId")
    /\ loadFrame

\* if (shareId) { try { await loadFromGist(shareId) } catch {} return; }
\* loadFromGist catches its own failure and sets State.FAILED_TO_LOAD
loadShareId ==
    /\ loadRun.phase = "shareId"
    /\ IF loadRun.share = "absent" THEN Continues("windowName")
       ELSE IF loadRun.share = "found" THEN Selects("shareId")
       ELSE Selects("none")
    /\ loadFrame

\* loadDiagram(id): the backend when it is in use, then db.diagrams.get;
\* window.name = "" when neither has the document
loadDiagram(r) ==
    IF r.backend /\ r.name = "backend" THEN "windowName"
    ELSE IF r.name = "local" THEN "windowName"
    ELSE "none"

\* if (window.name === "") await loadLatestDiagram(); else case "d":
\* await loadDiagram(id)
loadWindowName ==
    /\ loadRun.phase = "windowName"
    /\ IF loadRun.name = "empty" THEN Continues("latest")
       ELSE Selects(loadDiagram(loadRun))
    /\ loadFrame

\* loadLatestDiagram: getRecentDiagrams(1) of the backend; an empty list
\* returns with window.name = "", an exception falls back to
\* db.diagrams.orderBy("lastModified").last()
loadLatestDiagram ==
    /\ loadRun.phase = "latest"
    /\ IF loadRun.backend /\ loadRun.recent = "found" THEN Selects("latest")
       ELSE IF loadRun.backend /\ loadRun.recent = "empty" THEN Selects("none")
       ELSE IF loadRun.local THEN Selects("latest")
       ELSE Selects("none")
    /\ loadFrame

\* the source the priority order names for a run: the first one whose store
\* answers with a document; the most recent document is the backend's when
\* the backend answers and the browser's otherwise
FirstAvailable(r) ==
    IF r.backend /\ r.link = "found" THEN "diagramId"
    ELSE IF r.share = "found" THEN "shareId"
    ELSE IF (r.backend /\ r.name = "backend") \/ r.name = "local" THEN "windowName"
    ELSE IF (IF r.backend /\ r.recent # "fails" THEN r.recent = "found" ELSE r.local)
         THEN "latest"
    ELSE "none"

InitLoad ==
    /\ serverImpl = "part_011"
    /\ InitSockets /\ InitTables /\ InitNewDocument
    /\ InitEvents /\ backendAvailable = TRUE
    /\ loadRun \in LoadRuns /\ probe = NoProbe /\ ioSockets = NoSockets
    /\ InitFallback /\ InitCatalog /\ InitResources
    /\ InitConfigStore /\ InitRuns

NextLoad ==
    \/ loadDiagramId
    \/ loadShareId
    \/ loadWindowName
    \/ loadLatestDiagram

SpecLoad == InitLoad /\ [][NextLoad]_vars

----------------------------------------------------------------------------
(* Configuration catalog (ConfigManager) and Connection Manager, driven by  *)
(* the settings and configuration handlers of part_011. An operation maps  *)
(* the manager state m to the state it leaves; m.err tells that it threw.  *)

ConfigInputs ==
    {[engine |-> k[1], name |-> k[2],
      filePath |-> IF k[1] = "sqlite" THEN "default" ELSE "null",
      useSSH |-> u, is_default |-> d] : k \in ConfigKeys, u \in BOOLEAN, d \in BOOLEAN}

Outcomes == {"ok", "tunnelFails", "connectFails", "schemaFails"}

\* what a run of connect or testConnection can meet for this configuration
Possible(config, outcome) ==
    outcome = "tunnelFails" => (config.engine # "sqlite" /\ config.useSSH)

Manager ==
    [cur |-> currentConnection, cfg |-> connectionConfig, tun |-> sshTunnel,
     conns |-> openConnections, clients |-> openClients, streams |-> openStreams,
     curStream |-> connectionTunnel, nh |-> nextHandle, nt |-> nextTunnel,
     cat |-> catalog, err |-> FALSE]

\* a mutation: the engine casing is flipped instead of lowered
toggleCase(str) ==
    CASE str = "SQLite" -> "sqlite"
      [] str = "sqlite" -> "SQLite"
      [] str = "MySQL"  -> "mysql"
      [] str = "mysql"  -> "MySQL"
      [] OTHER          -> str

\* String.prototype.toLowerCase on the engine names that are submitted
toLowerCase(str) ==
    CASE str = "SQLite"     -> "sqlite"
      [] str = "MySQL"      -> "mysql"
      [] str = "PostgreSQL" -> "postgresql"
      [] str = "Oracle"     -> "oracle"
      [] OTHER              -> str

\* !value for a text or number field: undefined, null, '' and 0
Falsy(v) == v \in {Undefined, "null", "none", "", "0"}

\* input[f], undefined when the field is missing
Field(input, f) == IF f \in DOMAIN input THEN input[f] ELSE Undefined

SqliteNulled  == {"host", "port", "username", "database", "sshHost", "sshPort", "sshUser"}
SqliteEmptied == {"password", "privateKey", "passphrase", "ca", "cert", "key"}
SqliteFalsed  == {"useSSL", "useSSH"}

\* ConfigManager.sanitizeForEngine on a config object (a text '' is <<>>)
sanitizeForEngine(input) ==
    LET engine == toLowerCase(IF Falsy(Field(input, "engine")) THEN ""
                              ELSE input["engine"])
    IN IF engine = "sqlite"
       THEN [f \in DOMAIN input \cup SqliteNulled \cup SqliteEmptied \cup SqliteFalsed
                    \cup {"engine", "filePath"} |->
               CASE f = "engine"        -> engine
                 [] f \in SqliteNulled  -> "null"
                 [] f \in SqliteEmptied -> <<>>
                 [] f \in SqliteFalsed  -> FALSE
                 [] f = "filePath"      -> IF Falsy(Field(input, f)) THEN "default"
                                           ELSE input[f]
                 [] OTHER               -> input[f]]
       ELSE IF engine \in {"mysql", "postgresql"}
       THEN [f \in DOMAIN input \cup {"engine", "filePath", "port", "database"} |->
               CASE f = "engine"   -> engine
                 [] f = "filePath" -> "null"
                 [] f = "port"     -> IF Falsy(Field(input, f))
                                      THEN (IF engine = "mysql" THEN "3306" ELSE "5432")
                                      ELSE input[f]
                 [] f = "database" -> IF Falsy(Field(input, f)) THEN "drawdb"
                                      ELSE input[f]
                 [] OTHER          -> input[f]]
       ELSE [f \in DOMAIN input \cup {"engine"} |->
               IF f = "engine" THEN engine ELSE input[f]]

\* ConfigManager.saveConfig: insert, or update the row with this engine and name
saveConfig(cat, config) ==
    LET cleaned == sanitizeForEngine(config) IN
    [cat EXCEPT ![<<cleaned.engine, cleaned.name>>] =
        [present |-> TRUE, is_default |-> cleaned.is_default,
         useSSH |-> cleaned.useSSH, filePath |-> cleaned.filePath]]

\* UPDATE database_configs SET is_default = 0
clearDefaults(cat) ==
    [k \in ConfigKeys |-> IF cat[k].present THEN [cat[k] EXCEPT !.is_default = FALSE]
                          ELSE cat[k]]

\* UPDATE database_configs SET is_default = 1 WHERE engine = ?
markDefault(cat, engine) ==
    [k \in ConfigKeys |-> IF cat[k].present /\ k[1] = engine
                          THEN [cat[k] EXCEPT !.is_default = TRUE]
                          ELSE cat[k]]

\* ConfigManager.setDefaultConfig: the first statement, then in its callback
\* the second
setDefaultConfig(cat, engine) == markDefault(clearDefaults(cat), engine)

\* the configuration object read back from a row
RowConfig(cat, k) ==
    [engine |-> k[1], name |-> k[2], filePath |-> cat[k].filePath,
     useSSH |-> cat[k].useSSH, is_default |-> cat[k].is_default]

\* ConnectionManager.createSSHTunnel, resolved: this.sshTunnel = { client, stream }
createSSHTunnel(m) ==
    [m EXCEPT !.nt = @ + 1, !.clients = @ \cup {m.nt + 1},
              !.streams = @ \cup {m.nt + 1}, !.tun = m.nt + 1]

\* what a run of testConnection can meet: also `await connection.end()`
\* throwing in `finally`
TestOutcomes == Outcomes \cup {"closeFails"}

\* testSQLiteConnection / testMySQLConnection / testPostgresConnection: the
\* connection and the stream are closed in `finally`, the stream after the
\* connection; a connection whose end() threw is counted as still open
testConnection(m, config, outcome) ==
    IF config.engine = "sqlite" THEN [m EXCEPT !.err = (outcome # "ok")]
    ELSE LET t == IF config.useSSH THEN createSSHTunnel(m) ELSE m
             stream == IF config.useSSH THEN t.tun ELSE 0
         IN IF config.useSSH /\ outcome = "tunnelFails" THEN [m EXCEPT !.err = TRUE]
            ELSE IF outcome = "closeFails"
            THEN [t EXCEPT !.nh = @ + 1, !.conns = @ \cup {t.nh + 1}, !.err = TRUE]
            ELSE [t EXCEPT !.streams = @ \ {stream}, !.err = (outcome # "ok")]

DisconnectOutcomes == {"ok", "tunnelEndThrows", "closeThrows"}

\* a mutation: the connection is closed before its tunnel stream is ended
DisconnectStepsCloseFirst == <<"close", "tunnelEnd">>

\* the statements of the try block of disconnect, in their order:
\* currentConnection.sshTunnel.end(), then currentConnection.end() / close()
DisconnectSteps == <<"tunnelEnd", "close">>

\* whether a statement of disconnect throws in this run
Throws(step, m, outcome) ==
    \/ step = "tunnelEnd" /\ outcome = "tunnelEndThrows" /\ m.curStream # 0
    \/ step = "close" /\ outcome = "closeThrows"

\* whether a statement of disconnect runs to its end: it is reached (no
\* statement before it threw) and does not throw itself
Completes(step, m, outcome) ==
    /\ ~Throws(step, m, outcome)
    /\ step = DisconnectSteps[1] \/ ~Throws(DisconnectSteps[1], m, outcome)

\* ConnectionManager.disconnect: what the try block threw is caught and logged
cmDisconnectWith(m, outcome) ==
    IF m.cur # 0
    THEN [m EXCEPT !.streams = IF Completes("tunnelEnd", m, outcome)
                               THEN @ \ {m.curStream} ELSE @,
                   !.conns = IF Completes("close", m, outcome) THEN @ \ {m.cur} ELSE @,
                   !.cur = 0, !.curStream = 0, !.cfg = NoConfig]
    ELSE [m EXCEPT !.cfg = NoConfig]

\* disconnect when neither statement throws
cmDisconnect(m) == cmDisconnectWith(m, "ok")

\* connectSQLite: the handle is closed when the table cannot be created
connectSQLite(m, config, outcome) ==
    IF outcome # "ok" THEN [m EXCEPT !.err = TRUE]
    ELSE [m EXCEPT !.nh = @ + 1, !.conns = @ \cup {m.nh + 1}, !.cur = m.nh + 1,
                   !.curStream = 0, !.cfg = config]

\* connectMySQL / connectPostgres: `catch` closes the stream only
connectNetwork(m, config, outcome) ==
    IF config.useSSH /\ outcome = "tunnelFails" THEN [m EXCEPT !.err = TRUE]
    ELSE LET t == IF config.useSSH THEN createSSHTunnel(m) ELSE m
             stream == IF config.useSSH THEN t.tun ELSE 0
             opened == [t EXCEPT !.nh = @ + 1, !.conns = @ \cup {t.nh + 1}]
         IN IF outcome = "connectFails"
            THEN [t EXCEPT !.streams = @ \ {stream}, !.err = TRUE]
            ELSE IF outcome = "schemaFails"
            THEN [opened EXCEPT !.streams = @ \ {stream}, !.err = TRUE]
            ELSE [opened EXCEPT !.cur = opened.nh, !.curStream = stream, !.cfg = config]

\* ConnectionManager.connect
cmConnect(m, config, outcome) ==
    LET stored == [m EXCEPT !.cat = saveConfig(@, config)]
        marked == IF config.is_default
                  THEN [stored EXCEPT !.cat = setDefaultConfig(@, config.engine)]
                  ELSE stored
    IN IF config.engine = "sqlite" THEN connectSQLite(marked, config, outcome)
       ELSE connectNetwork(marked, config, outcome)

\* the manager state an operation left, and the call it was
LeavesManager(m, op, failed, outcome) ==
    /\ m.nh <= MaxHandles /\ m.nt <= MaxTunnels
    /\ currentConnection' = m.cur /\ connectionConfig' = m.cfg /\ sshTunnel' = m.tun
    /\ openConnections' = m.conns /\ openClients' = m.clients
    /\ openStreams' = m.streams /\ connectionTunnel' = m.curStream
    /\ nextHandle' = m.nh /\ nextTunnel' = m.nt /\ catalog' = m.cat
    /\ lastCall' = [op |-> op,
                    before |-> IF op = "testConnection"
                               THEN <<currentConnection, connectionConfig, sshTunnel>>
                               ELSE NoCall.before]
    /\ callAudit' =
         IF ~callAudit.on THEN callAudit
         ELSE [on |-> TRUE,
               err |-> failed,
               outcome |-> outcome,
               hadActive |-> currentConnection # 0,
               activeKept |-> (currentConnection # 0 /\ m.cur = currentConnection
                               /\ currentConnection \in m.conns),
               catChanged |-> m.cat # catalog,
               leaked |-> (m.conns \ openConnections) \cup (m.clients \ openClients)
                            \cup (m.streams \ openStreams) # {},
               sameResources |-> <<m.conns, m.clients, m.streams>>
                                   = <<openConnections, openClients, openStreams>>,
               stream |-> connectionTunnel]
    /\ UNCHANGED <<serverImpl, syncVars, tables, nullIdRows, written, lastResult,
                   clientVars, configVars>>

\* a handler that ran from its first statement to its response
Leaves(m, op, failed, outcome) ==
    /\ LeavesManager(m, op, failed, outcome)
    /\ UNCHANGED handlers

\* app.post('/api/settings/test')
postSettingsTest(config, outcome) ==
    /\ Possible(config, outcome)
    /\ LET m == testConnection(Manager, config, outcome) IN
       Leaves(m, "testConnection", m.err, outcome)
    /\ UNCHANGED dbHandle

\* app.post('/api/configs')
postConfigs(config) ==
    /\ Leaves([Manager EXCEPT !.cat = saveConfig(@, config)], "saveConfig", FALSE, "ok")
    /\ UNCHANGED dbHandle

\* app.post('/api/configs/:engine/connect'): getConfigByEngine, disconnect,
\* connect, then database = new Database(); database.connect()
postConfigsConnect(k, outcome) ==
    /\ catalog[k].present
    /\ Possible(RowConfig(catalog, k), outcome)
    /\ LET m == cmConnect(cmDisconnect(Manager), RowConfig(catalog, k), outcome) IN
       /\ Leaves(m, "connect", m.err, outcome)
       /\ dbHandle' = IF m.err THEN dbHandle ELSE "null"

\* ConnectionManager.disconnect called on its own: Database.close() and the
\* SIGINT handler, which calls it twice in a row
managerDisconnect(outcome) ==
    /\ Leaves(cmDisconnectWith(Manager, outcome), "disconnect", FALSE, outcome)
    /\ UNCHANGED dbHandle

\* app.post('/api/settings/apply'): testConnection, disconnect, connect,
\* ensureDatabaseAndSchema, then database = new Database(); database.connect()
postSettingsApply(config, tested, outcome, ensured) ==
    /\ Possible(config, tested) /\ Possible(config, outcome)
    /\ tested # "ok" => outcome = "ok"       \* connect is not reached
    /\ outcome # "ok" => ensured             \* ensureDatabaseAndSchema is not reached
    /\ LET t == testConnection(Manager, config, tested)
           m == IF t.err THEN t ELSE cmConnect(cmDisconnect(t), config, outcome)
       IN /\ Leaves(m, IF t.err THEN "testConnection" ELSE "apply",
                    m.err \/ ~ensured,
                    IF t.err THEN tested ELSE IF m.err THEN outcome
                    ELSE IF ensured THEN "ok" ELSE "ensureFails")
          /\ dbHandle' = IF m.err \/ ~ensured THEN dbHandle ELSE "null"

InitManager ==
    /\ serverImpl = "part_011"
    /\ InitSockets /\ InitTables /\ InitController
    /\ InitFallback /\ InitCatalog /\ InitResources
    /\ InitConfigStore /\ InitRuns

NextManager ==
    \/ \E config \in ConfigInputs, outcome \in Outcomes : postSettingsTest(config, outcome)
    \/ \E config \in ConfigInputs : postConfigs(config)
    \/ \E k \in ConfigKeys, outcome \in Outcomes : postConfigsConnect(k, outcome)
    \/ \E config \in ConfigInputs, tested \in {"ok", "connectFails"},
          outcome \in Outcomes, ensured \in BOOLEAN :
          postSettingsApply(config, tested, outcome, ensured)

SpecManager == InitManager /\ [][NextManager]_vars

\* connection lifecycle: the same handlers and disconnect on a MySQL
\* configuration, with or without an SSH tunnel, each call audited
LifecycleConfigs == {c \in ConfigInputs : c.engine = "mysql"}

InitLifecycle ==
    /\ serverImpl = "part_011"
    /\ InitSockets /\ InitTables /\ InitController
    /\ InitFallback /\ InitCatalog /\ InitHandles
    /\ callAudit = [NoCallAudit EXCEPT !.on = TRUE]
    /\ handlers = [i \in Requests |-> NoRequest]
    /\ InitConfigStore /\ InitRuns

NextLifecycle ==
    \/ \E config \in LifecycleConfigs, outcome \in TestOutcomes :
          postSettingsTest(config, outcome)
    \/ \E config \in LifecycleConfigs : postConfigs(config)
    \/ \E k \in ConfigKeys, outcome \in Outcomes : postConfigsConnect(k, outcome)
    \/ \E config \in LifecycleConfigs, tested \in {"ok", "connectFails"},
          outcome \in Outcomes, ensured \in BOOLEAN :
          postSettingsApply(config, tested, outcome, ensured)
    \/ \E outcome \in DisconnectOutcomes : managerDisconnect(outcome)

SpecLifecycle == InitLifecycle /\ [][NextLifecycle]_vars

----------------------------------------------------------------------------
\* The earlier ConnectionManager (src/server/db/config.js from line 1198):
\* connect disconnects, records the config, and then opens the connection.

\* connectSQLite: new sqlite3.Database(dbPath, ...), rejected or resolved
earlierConnectSQLite(m, config, outcome) ==
    IF outcome # "ok" THEN [m EXCEPT !.err = TRUE]
    ELSE [m EXCEPT !.nh = @ + 1, !.conns = @ \cup {m.nh + 1}, !.cur = m.nh + 1,
                   !.curStream = 0]

\* connectMySQL / connectPostgres: no statement is guarded, so what was
\* opened before a failure stays open
earlierConnectNetwork(m, config, outcome) ==
    IF config.useSSH /\ outcome = "tunnelFails" THEN [m EXCEPT !.err = TRUE]
    ELSE LET t == IF config.useSSH THEN createSSHTunnel(m) ELSE m
             stream == IF config.useSSH THEN t.tun ELSE 0
             opened == [t EXCEPT !.nh = @ + 1, !.conns = @ \cup {t.nh + 1}]
         IN IF outcome = "connectFails" THEN [t EXCEPT !.err = TRUE]
            ELSE IF outcome = "schemaFails" THEN [opened EXCEPT !.err = TRUE]
            ELSE [opened EXCEPT !.cur = opened.nh, !.curStream = stream]

\* ConnectionManager.connect: await this.disconnect(); this.connectionConfig
\* = {...config, ...}; this.currentConnection = await this.connectX(config)
earlierConnect(m, config, outcome) ==
    LET recorded == [cmDisconnect(m) EXCEPT !.cfg = config]
    IN IF config.engine = "sqlite" THEN earlierConnectSQLite(recorded, config, outcome)
       ELSE earlierConnectNetwork(recorded, config, outcome)

\* a call of connect(config), run to its end
connectEarlier(config, outcome) ==
    /\ Possible(config, outcome)
    /\ LET m == earlierConnect(Manager, config, outcome) IN
       /\ Leaves(m, "connect", m.err, outcome)
       /\ dbHandle' = IF m.err THEN dbHandle ELSE "null"

NextEarlier ==
    \/ \E config \in ConfigInputs, outcome \in Outcomes : connectEarlier(config, outcome)
    \/ \E outcome \in DisconnectOutcomes : managerDisconnect(outcome)

SpecEarlier == InitLifecycle /\ [][NextEarlier]_vars

----------------------------------------------------------------------------
(* Overlapping apply / connect requests: each handler is an async function *)
(* and another request runs whenever it awaits. A request goes through     *)
(* disconnect(), then in connect(): saveConfig, setDefaultConfig (its two   *)
(* statements) when is_default is set, the opening of the connection, the  *)
(* bootstrap statements, and last the assignment of currentConnection.     *)

OverlapConfigs ==
    {c \in ConfigInputs : c.engine \in {"mysql", "postgresql"} /\ ~c.useSSH}

Establishing == {"disconnected", "saved", "cleared", "marked", "opened"}
Completed    == {"done", "failed"}

Advance(i, phase, handle) ==
    handlers' = [handlers EXCEPT ![i] = [@ EXCEPT !.phase = phase, !.handle = handle]]

\* the handler takes the request; nothing looks at the requests in progress
acceptRequest(i, config) ==
    /\ handlers[i].phase = "idle"
    /\ handlers' = [handlers EXCEPT ![i] = [phase |-> "accepted", config |-> config,
                                      handle |-> 0]]
    /\ LeavesManager(Manager, "accept", FALSE, "ok")
    /\ UNCHANGED dbHandle

\* await connectionManager.disconnect()
requestDisconnects(i) ==
    /\ handlers[i].phase = "accepted"
    /\ Advance(i, "disconnected", 0)
    /\ LeavesManager(cmDisconnect(Manager), "disconnect", FALSE, "ok")
    /\ UNCHANGED dbHandle

\* await configManager.saveConfig(config)
requestSaves(i) ==
    /\ handlers[i].phase = "disconnected"
    /\ Advance(i, "saved", 0)
    /\ LeavesManager([Manager EXCEPT !.cat = saveConfig(@, handlers[i].config)],
                     "saveConfig", FALSE, "ok")
    /\ UNCHANGED dbHandle

\* setDefaultConfig: UPDATE database_configs SET is_default = 0
requestClears(i) ==
    /\ handlers[i].phase = "saved" /\ handlers[i].config.is_default
    /\ Advance(i, "cleared", 0)
    /\ LeavesManager([Manager EXCEPT !.cat = clearDefaults(@)], "setDefault", FALSE, "ok")
    /\ UNCHANGED dbHandle

\* setDefaultConfig: UPDATE database_configs SET is_default = 1 WHERE engine = ?
requestMarks(i) ==
    /\ handlers[i].phase = "cleared"
    /\ Advance(i, "marked", 0)
    /\ LeavesManager([Manager EXCEPT !.cat = markDefault(@, handlers[i].config.engine)],
                     "setDefault", FALSE, "ok")
    /\ UNCHANGED dbHandle

\* connectMySQL / connectPostgres: await mysql.createConnection / client.connect()
requestOpens(i, outcome) ==
    /\ \/ handlers[i].phase = "saved" /\ ~handlers[i].config.is_default
       \/ handlers[i].phase = "marked"
    /\ IF outcome = "ok"
       THEN /\ Advance(i, "opened", nextHandle + 1)
            /\ LeavesManager([Manager EXCEPT !.nh = @ + 1, !.conns = @ \cup {nextHandle + 1}],
                             "connect", FALSE, outcome)
       ELSE /\ Advance(i, "failed", 0)
            /\ LeavesManager(Manager, "connect", TRUE, outcome)
    /\ UNCHANGED dbHandle

\* the bootstrap statements were awaited: this.currentConnection = connection;
\* this.connectionConfig = config; then database = new Database()
requestActivates(i, outcome) ==
    /\ handlers[i].phase = "opened"
    /\ IF outcome = "ok"
       THEN /\ Advance(i, "done", handlers[i].handle)
            /\ LeavesManager([Manager EXCEPT !.cur = handlers[i].handle, !.curStream = 0,
                                             !.cfg = handlers[i].config],
                             "connect", FALSE, outcome)
            /\ dbHandle' = "null"
       ELSE /\ Advance(i, "failed", handlers[i].handle)
            /\ LeavesManager(Manager, "connect", TRUE, outcome)
            /\ UNCHANGED dbHandle

\* the server with two configurations saved by POST /api/configs
InitOverlap ==
    /\ serverImpl = "part_011"
    /\ InitSockets /\ InitTables /\ InitController
    /\ InitFallback
    /\ catalog = [k \in ConfigKeys |->
                    [present |-> TRUE, is_default |-> FALSE, useSSH |-> FALSE,
                     filePath |-> IF k[1] = "sqlite" THEN "default" ELSE "null"]]
    /\ InitResources
    /\ InitConfigStore /\ InitRuns

NextOverlap ==
    \/ \E i \in Requests, config \in OverlapConfigs : acceptRequest(i, config)
    \/ \E i \in Requests : requestDisconnects(i)
    \/ \E i \in Requests : requestSaves(i)
    \/ \E i \in Requests : requestClears(i)
    \/ \E i \in Requests : requestMarks(i)
    \/ \E i \in Requests, outcome \in {"ok", "connectFails"} : requestOpens(i, outcome)
    \/ \E i \in Requests, outcome \in {"ok", "schemaFails"} : requestActivates(i, outcome)

SpecOverlap == InitOverlap /\ [][NextOverlap]_vars

----------------------------------------------------------------------------
(* Configuration store: ConfigManager over the rows of database_configs,   *)
(* and the Configuration API handlers of part_011 that read it.            *)

MaxConfigRows == 3           \* rows ever inserted into database_configs
ServerKey     == "default-key-change-in-production"

ConfigNames   == {"a", "b"}
SecretInputs  == {<<>>, <<1, 2>>}

\* request bodies of POST /api/configs; name may be missing
ConfigBodies ==
    {[engine |-> e, name |-> n, password |-> pw, is_default |-> d] :
        e \in {"sqlite", "mysql", "MySQL"}, n \in ConfigNames, pw \in SecretInputs,
        d \in BOOLEAN}
    \cup {[engine |-> "mysql", password |-> pw, is_default |-> FALSE] : pw \in SecretInputs}

\* a mutation: the lookup by engine and name finds no row
SelectConfigNone(rows, engine, name) == {}

\* SELECT id FROM database_configs WHERE engine = ? AND name = ?
\* (an undefined name is bound as NULL and equals no row)
SelectConfig(rows, engine, name) ==
    {r \in rows : name # Undefined /\ r.engine = engine /\ r.name = name}

\* the row db.get hands over: the first in rowid order
FirstRow(found) == CHOOSE r \in found : \A q \in found : r.id <= q.id

\* the values saveConfig binds: sanitized, secrets encrypted
storedConfig(config, iv) ==
    LET cleaned == sanitizeForEngine(config)
    IN  [engine |-> cleaned["engine"], name |-> Field(cleaned, "name"),
         password |-> encrypt(cleaned["password"], ServerKey, iv),
         is_default |-> cleaned["is_default"]]

\* the callback of db.get in saveConfig, handed the rows its SELECT found:
\* UPDATE ... WHERE id = row.id, or INSERT a new row (name is NOT NULL)
saveConfigWrite(rows, last, config, iv, found) ==
    LET stored == storedConfig(config, iv)
    IN IF found # {}
       THEN LET row == FirstRow(found)
            IN [rows |-> {r \in rows : r.id # row.id}
                         \cup {[id |-> r.id] @@ stored : r \in {q \in rows : q.id = row.id}},
                lastID |-> last, id |-> row.id, err |-> FALSE]
       ELSE IF stored.name = Undefined
       THEN [rows |-> rows, lastID |-> last, id |-> 0, err |-> TRUE]
       ELSE [rows |-> rows \cup {[id |-> last + 1] @@ stored},
             lastID |-> last + 1, id |-> last + 1, err |-> FALSE]

\* ConfigManager.saveConfig over the rows, with nothing between its SELECT
\* and its write
saveConfigRows(rows, last, config, iv) ==
    LET stored == storedConfig(config, iv)
    IN  saveConfigWrite(rows, last, config, iv,
                        SelectConfig(rows, stored.engine, stored.name))

\* the config object the readers build from a row: secrets decrypted, then
\* sanitizeForEngine
ReadConfig(row) ==
    sanitizeForEngine([id |-> row.id, engine |-> row.engine, name |-> row.name,
                       password |-> decrypt(row.password, ServerKey),
                       is_default |-> row.is_default])

\* ConfigManager.getAllConfigs
getAllConfigs(rows) == {ReadConfig(r) : r \in rows}

\* ConfigManager.getConfigByEngine: the first configured row of the engine
getConfigByEngine(rows, engine) ==
    LET found == {r \in rows : r.engine = engine}
    IN IF found = {} THEN {} ELSE {ReadConfig(FirstRow(found))}

\* ConfigManager.getDefaultConfig: the first row with is_default = 1
getDefaultConfig(rows) ==
    LET found == {r \in rows : r.is_default}
    IN IF found = {} THEN {} ELSE {ReadConfig(FirstRow(found))}

storeFrame == UNCHANGED <<serverImpl, syncVars, cmVars, storeVars, clientVars, managerVars,
                          cryptoRun, sanitizeRun, saveCalls>>

\* app.post('/api/configs'): saveConfig, answered with { id, success }
postConfigsSave(config, iv) ==
    /\ LET res   == saveConfigRows(configRows, lastID, config, iv)
           same  == {r \in configRows : "name" \in DOMAIN config
                                        /\ r.engine = config.engine /\ r.name = config.name}
       IN /\ res.lastID <= MaxConfigRows
          /\ configRows' = res.rows
          /\ lastID' = res.lastID
          /\ lastReply' = [op |-> IF res.err THEN "saveConfigFailed" ELSE "saveConfig",
                           id |-> res.id, existed |-> same # {},
                           expected |-> IF same = {} THEN 0 ELSE FirstRow(same).id,
                           before |-> Cardinality(configRows), body |-> {}]
    /\ storeFrame

\* app.delete('/api/configs/:id'): deleteConfig
deleteConfigs(id) ==
    /\ \E r \in configRows : r.id = id
    /\ configRows' = {r \in configRows : r.id # id}
    /\ lastReply' = [NoReply EXCEPT !.op = "deleteConfig", !.id = id]
    /\ UNCHANGED lastID /\ storeFrame

\* app.get('/api/configs')
getConfigs ==
    /\ lastReply' = [NoReply EXCEPT !.op = "getAllConfigs", !.body = getAllConfigs(configRows)]
    /\ UNCHANGED <<configRows, lastID>> /\ storeFrame

\* app.get('/api/configs/:engine')
getConfigsEngine(engine) ==
    /\ lastReply' = [NoReply EXCEPT !.op = "getConfigByEngine",
                                    !.body = getConfigByEngine(configRows, engine)]
    /\ UNCHANGED <<configRows, lastID>> /\ storeFrame

\* app.get('/api/settings/status'): the defaultConfig of the answer
getSettingsStatus ==
    /\ lastReply' = [NoReply EXCEPT !.op = "settingsStatus",
                                    !.body = getDefaultConfig(configRows)]
    /\ UNCHANGED <<configRows, lastID>> /\ storeFrame

\* saveConfig, up to the answer of its SELECT
saveConfigLooks(i, config, iv) ==
    /\ saveCalls[i].phase = "idle"
    /\ LET stored == storedConfig(config, iv)
       IN saveCalls' = [saveCalls EXCEPT ![i] =
                          [phase |-> "looked", config |-> config, iv |-> iv,
                           found |-> SelectConfig(configRows, stored.engine, stored.name)]]
    /\ UNCHANGED <<configRows, lastID, lastReply, serverImpl, syncVars, cmVars, storeVars,
                   clientVars, managerVars, cryptoRun, sanitizeRun>>

\* saveConfig, from the callback of its SELECT on: the UPDATE or INSERT
saveConfigWrites(i) ==
    /\ saveCalls[i].phase = "looked"
    /\ LET call == saveCalls[i]
           res  == saveConfigWrite(configRows, lastID, call.config, call.iv, call.found)
       IN /\ res.lastID <= MaxConfigRows
          /\ configRows' = res.rows
          /\ lastID' = res.lastID
          /\ lastReply' = [NoReply EXCEPT !.op = IF res.err THEN "saveConfigFailed"
                                                 ELSE "saveConfig",
                                          !.id = res.id,
                                          !.before = Cardinality(configRows)]
    /\ saveCalls' = [saveCalls EXCEPT ![i].phase = "done"]
    /\ UNCHANGED <<serverImpl, syncVars, cmVars, storeVars, clientVars, managerVars,
                   cryptoRun, sanitizeRun>>

InitConfigs ==
    /\ serverImpl = "part_011"
    /\ InitSockets /\ InitTables /\ InitController
    /\ InitFallback /\ InitCatalog /\ InitResources
    /\ InitConfigStore /\ InitRuns

NextConfigs ==
    \/ \E config \in ConfigBodies, iv \in {0, ByteRange - 1} : postConfigsSave(config, iv)
    \/ \E id \in 1..MaxConfigRows : deleteConfigs(id)
    \/ getConfigs
    \/ \E engine \in {"sqlite", "mysql"} : getConfigsEngine(engine)
    \/ getSettingsStatus

SpecConfigs == InitConfigs /\ [][NextConfigs]_vars

NextSaveCalls ==
    \/ \E i \in 1..MaxSaveCalls, config \in ConfigBodies, iv \in {0, ByteRange - 1} :
          saveConfigLooks(i, config, iv)
    \/ \E i \in 1..MaxSaveCalls : saveConfigWrites(i)

SpecSaveCalls == InitConfigs /\ [][NextSaveCalls]_vars

----------------------------------------------------------------------------
(* encrypt followed by decrypt, for every text and key *)

pureFrame == UNCHANGED <<serverImpl, syncVars, cmVars, storeVars, clientVars, managerVars,
                         configRows, lastID, lastReply, saveCalls>>

\* this.encrypt(text) with a fresh iv
encryptRun(iv) ==
    /\ cryptoRun.phase = "input"
    /\ cryptoRun' = [cryptoRun EXCEPT !.phase = "encrypted",
                                      !.envelope = encrypt(cryptoRun.text, cryptoRun.key, iv)]
    /\ UNCHANGED sanitizeRun /\ pureFrame

\* this.decrypt(row.password) under the same key
decryptRun ==
    /\ cryptoRun.phase = "encrypted"
    /\ cryptoRun' = [cryptoRun EXCEPT !.phase = "decrypted",
                                      !.decrypted = decrypt(cryptoRun.envelope, cryptoRun.key)]
    /\ UNCHANGED sanitizeRun /\ pureFrame

InitIdle ==
    /\ serverImpl = "part_011"
    /\ InitSockets /\ InitTables /\ InitController
    /\ InitFallback /\ InitCatalog /\ InitResources
    /\ InitConfigStore

InitCrypto ==
    /\ InitIdle
    /\ \E text \in Texts, key \in CipherKeys :
          cryptoRun = [NoCrypto EXCEPT !.text = text, !.key = key]
    /\ sanitizeRun = NoSanitize

NextCrypto ==
    \/ \E iv \in Bytes : encryptRun(iv)
    \/ decryptRun

SpecCrypto == InitCrypto /\ [][NextCrypto]_vars

\* decrypt of any stored value: a password column may hold an envelope, an
\* envelope written under another key, or a value that never was one
MaxStored   == 4                     \* longest stored value, in characters
StoredChars == {"0", "1", "2", "3", ":", "z"}
StoredValues == UNION {[1..n -> StoredChars] : n \in 0..MaxStored}

\* this.decrypt(row.password) on the stored value, under the key of the
\* process that reads the row
decryptStored(key) ==
    /\ cryptoRun.phase = "stored"
    /\ LET r == decryptCall(cryptoRun.envelope, key) IN
       cryptoRun' = [cryptoRun EXCEPT
                        !.phase = "read",
                        !.key = key,
                        !.decrypted = r.value,
                        !.threw = r.threw,
                        !.failed = cryptoRun.envelope # <<>>
                                   /\ tryDecrypt(cryptoRun.envelope, key).threw]
    /\ UNCHANGED sanitizeRun /\ pureFrame

InitDecrypt ==
    /\ InitIdle
    /\ \E value \in StoredValues :
          cryptoRun = [NoCrypto EXCEPT !.phase = "stored", !.envelope = value]
    /\ sanitizeRun = NoSanitize

NextDecrypt == \E key \in CipherKeys : decryptStored(key)

SpecDecrypt == InitDecrypt /\ [][NextDecrypt]_vars

----------------------------------------------------------------------------
(* sanitizeForEngine applied to its own result *)

Absent == "absent"      \* marks a field the config object does not have

EngineInputs   == {"sqlite", "SQLite", "mysql", "MySQL", "postgresql", "Oracle", "", Absent}
PortInputs     == {Absent, "null", "0", "3306", "8080"}
DatabaseInputs == {Absent, "", "mydb"}
FilePathInputs == {Absent, "", "custom"}
PasswordInputs == {<<>>, <<1, 2>>}

\* a config object with the fields that are present
ConfigObject(e, p, d, f, hasPassword, pw, hasSSH) ==
    LET full == [engine |-> e, port |-> p, database |-> d, filePath |-> f]
        keep == {k \in DOMAIN full : full[k] # Absent}
    IN [k \in keep \cup (IF hasPassword THEN {"password"} ELSE {})
                   \cup (IF hasSSH THEN {"useSSH"} ELSE {}) |->
          CASE k = "password" -> pw
            [] k = "useSSH"   -> TRUE
            [] OTHER          -> full[k]]

sanitizeOnce ==
    /\ sanitizeRun.phase = "input"
    /\ sanitizeRun' = [phase |-> "once", input |-> sanitizeRun.input,
                       once |-> sanitizeForEngine(sanitizeRun.input)]
    /\ UNCHANGED cryptoRun /\ pureFrame

sanitizeTwice ==
    /\ sanitizeRun.phase = "once"
    /\ sanitizeRun' = [phase |-> "twice", input |-> sanitizeRun.input,
                       once |-> sanitizeRun.once,
                       twice |-> sanitizeForEngine(sanitizeRun.once)]
    /\ UNCHANGED cryptoRun /\ pureFrame

InitSanitize ==
    /\ InitIdle
    /\ cryptoRun = NoCrypto
    /\ \E e \in EngineInputs, p \in PortInputs, d \in DatabaseInputs, f \in FilePathInputs,
          hasPassword \in BOOLEAN, pw \in PasswordInputs, hasSSH \in BOOLEAN :
          sanitizeRun = [phase |-> "input",
                         input |-> ConfigObject(e, p, d, f, hasPassword, pw, hasSSH)]

NextSanitize == sanitizeOnce \/ sanitizeTwice

SpecSanitize == InitSanitize /\ [][NextSanitize]_vars

----------------------------------------------------------------------------
(* Sync Gateway properties, checked under SpecSync *)

\* C1: for every change that connection X originates (the document update and
\* the 'diagram-updated' notification that follows it), the gateway never
\* delivers a 'diagram-updated' event for that change to X itself.
C1_NoEchoToOriginator ==
    \A e \in delivered : e.to # e.origin

\* C2: every 'diagram-updated' notification a connected client emitted through
\* emitDiagramUpdate and the gateway has taken off the wire is delivered, with
\* updatedBy set to the sender's connection id, to every other connection that
\* was a member of the document's room at that moment.
C2_RebroadcastToOthers ==
    lastHandled # NoHandled =>
        \A m \in lastHandled.members \ {lastHandled.from} :
            Event(m, lastHandled.n, lastHandled.diagramId, lastHandled.from,
                  lastHandled.from, "socket") \in delivered

\* C14: when client A updates a document while B is in its room, the events
\* delivered to B for that change are exactly one event, and it carries
\* updatedBy equal to A's connection id.
C14_OneEventPerUpdate ==
    \A e \in delivered :
        e.to # e.origin =>
            /\ e.updatedBy = e.origin
            /\ \A f \in delivered : (f.to = e.to /\ f.n = e.n) => f = e

\* C40: between calls of the Connection Manager, isConnected() is true
\* exactly when getConfig() is not null: a connect that failed left both
\* absent or both as they were.
C40_ConnectedIffConfigured ==
    (currentConnection # 0) <=> (connectionConfig # NoConfig)

\* C39: two calls of saveConfig for one engine and name that no row has yet,
\* whose lookups both ran before either write, leave exactly one row with
\* that engine and name.
C39_ConcurrentSavesLeaveOneRow ==
    \A i, j \in 1..MaxSaveCalls :
        LET a == storedConfig(saveCalls[i].config, saveCalls[i].iv)
            b == storedConfig(saveCalls[j].config, saveCalls[j].iv)
        IN (/\ i # j
            /\ saveCalls[i].phase = "done" /\ saveCalls[j].phase = "done"
            /\ saveCalls[i].found = {} /\ saveCalls[j].found = {}
            /\ a.name # Undefined /\ a.engine = b.engine /\ a.name = b.name)
           => Cardinality({r \in configRows : r.engine = a.engine /\ r.name = a.name}) = 1

\* C38: the SocketService has at most one live socket, also when connect()
\* or joinDiagram() is called while an earlier connection attempt is pending,
\* and isConnected holds exactly when the socket it holds is connected.
C38_OneLiveSocket ==
    /\ Cardinality(LiveSockets) <= 1
    /\ isConnected[ThisClient] <=>
          (ioSockets.held # 0 /\ ioSockets.live[ioSockets.held] = "connected")

\* C37: whenever a client's socket is connected, SocketService.currentDiagramId
\* is d and nothing it emitted is still on its way, the client's connection
\* is a member of the gateway's room of d and of no other room, also after the
\* socket disconnected and connected again.
C37_InRoomOfCurrentDiagram ==
    \A c \in Clients :
        (Connected(c) /\ currentDiagramId[c] # "null" /\ wire[c] = <<>>) =>
            \A d \in RoomIds : (socketId[c] \in rooms[d]) <=> (d = currentDiagramId[c])

----------------------------------------------------------------------------
(* Document Store properties, checked under SpecStore *)

\* what the store was last made to hold for the document a get just returned
WrittenFor(res) == written[res.store][res.id]

\* C3: getDiagram after createDiagram returns the title, tag and content that
\* were submitted, and after any sequence of updateDiagram calls it returns
\* exactly the title, tag and content of the latest update.
C3_GetReturnsLatestWrite ==
    (lastResult.op = "get" /\ lastResult.ok /\ WrittenFor(lastResult) # NoWritten) =>
        /\ lastResult.row.title = WrittenFor(lastResult).title
        /\ lastResult.row.database_type = WrittenFor(lastResult).database_type
        /\ lastResult.row.content = WrittenFor(lastResult).content

\* C3 witness: a get that succeeded on a document updated at least twice
C3_GetAfterTwoUpdates ==
    /\ lastResult.op = "get" /\ lastResult.ok
    /\ WrittenFor(lastResult).updates >= 2
    /\ lastResult.row.title = "t2" /\ lastResult.row.content = "c2"

\* the last call was updateDiagram or deleteDiagram on an id the store did not hold
AbsentIdCall == lastResult.op \in {"update", "delete"} /\ lastResult.absent

\* C4 as stated: updateDiagram and deleteDiagram on an id that is not in the
\* store always fail with 'Diagram not found' and leave the store unchanged.
C4_AlwaysDiagramNotFound ==
    AbsentIdCall =>
        ~lastResult.ok /\ ~lastResult.changed /\ lastResult.err = "Diagram not found"

\* C4 amended: updateDiagram and deleteDiagram on an id that is not in the store
\* never report success and leave the store unchanged; the failure is 'Diagram
\* not found', except 'Database not connected' when neither the Connection
\* Manager nor Database.db holds a handle, and the driver's bind error in the
\* MySQL branch when a parameter is undefined.
C4_AbsentIdNeverSucceeds ==
    AbsentIdCall =>
        /\ ~lastResult.ok /\ ~lastResult.changed
        /\ \/ lastResult.err = "Diagram not found"
           \/ lastResult.err = "Database not connected"
                 /\ ~cmIsConnected /\ dbHandle = "null"
           \/ lastResult.err = "bind parameter undefined or NULL"
                 /\ cmIsConnected /\ connectionConfig.engine = "mysql"

\* C4 witness: an update of an absent id was refused with 'Diagram not found'
\* by the MySQL branch
C4_AbsentUpdateRefused ==
    /\ lastResult.op = "update" /\ lastResult.absent
    /\ lastResult.err = "Diagram not found" /\ lastResult.store = "mysql"

----------------------------------------------------------------------------
(* Document API properties, checked under SpecApi *)

\* C16: get, update and delete of an id that is absent from the store answer
\* HTTP 404 at the Document API.
C16_AbsentIdAnswers404 ==
    (lastResult.op \in {"get", "update", "delete"} /\ lastResult.absent) =>
        lastResult.status = 404

\* C17: every successful create through the Document API, for a request with
\* title, engineTag and content only, returns a document whose id is assigned
\* and which no other row of the store carries.
C17_CreatedIdAssigned ==
    (lastResult.op = "create" /\ lastResult.ok) =>
        /\ lastResult.id \in Diagrams
        /\ lastResult.absent
        /\ tables[lastResult.store][lastResult.id] # NoRow

\* C31: a get of a document through the Document API returns the engineTag
\* (databaseType) that the client submitted with the create or the latest
\* update of the document, whichever storage engine is active.
C31_SubmittedTagReturned ==
    (lastResult.op = "get" /\ lastResult.ok /\ WrittenFor(lastResult) # NoWritten) =>
        lastResult.row.database_type = WrittenFor(lastResult).submitted

----------------------------------------------------------------------------
(* Save controller properties, checked under SpecClient *)

\* C5: when an update is answered 'Diagram not found' by the store, the
\* controller performs exactly one create with the same content, sets the
\* document identity to the new id and the state to SAVED.
C5_NotFoundFallsBackToCreate ==
    notFound.phase = "handled" =>
        /\ notFound.creates = 1
        /\ notFound.saveState = "SAVED"
        /\ notFound.identity \in Diagrams

\* C6: for a document that starts with identity 'new', at most one create
\* request is issued and id and window.name are set by a create at most once.
C6_IdentityAssignedOnce ==
    startedNew => createRequests <= 1 /\ idSets <= 1

\* C7: for every sequence of edits, reverts and timer firings (no save
\* command), a write is issued only when the content signature differs from
\* lastSavedSignature.
C7_NoWriteOfUnchangedContent ==
    (~commanded /\ lastWrite.kind # "none") => ~lastWrite.unchanged

----------------------------------------------------------------------------
(* Collaboration properties of the save controller, checked under          *)
(* SpecCollaboration, SpecWindow, SpecClient or SpecLoad                   *)

\* C11: a reload that a remote change caused is never treated as a local
\* edit: no save that the reload caused writes the reloaded content back to a
\* store, and none emits a change notification from the reloading window.
C11_ReloadNotTreatedAsEdit ==
    /\ ~audit.reloadWrote
    /\ ~reloadEmitted

\* C28: the window emits a change notification only for a write of its own
\* that succeeded, and a save that completes while a remote-change reload is
\* in progress (isReloading set) emits nothing.
C28_EmitOnlyAfterOwnWrite ==
    /\ emitted.sent <= emitted.acked
    /\ ~emitted.duringReload

\* C12: a received 'diagram-updated' event reloads the document or opens the
\* notice only if it carries an updatedBy that differs from the window's own
\* current connection id; an event with the own id or without updatedBy
\* leaves the document, the reload flag and the notice as they were.
C12_OnlyOtherClientsEventsAct ==
    /\ lastEvent.effect \in {"reload", "prompt"} =>
           (lastEvent.updatedBy # 0 /\ lastEvent.updatedBy # lastEvent.own)
    /\ (lastEvent.effect # "none"
          /\ (lastEvent.updatedBy = 0 \/ lastEvent.updatedBy = lastEvent.own)) =>
           lastEvent.effect = "ignored"

\* C12 witness: after an event of another client put the window in a reload,
\* an event carrying the window's own connection id was handled and ignored
C12_OwnEventIgnoredDuringReload ==
    /\ lastEvent.effect = "ignored"
    /\ lastEvent.own # 0 /\ lastEvent.updatedBy = lastEvent.own
    /\ isReloading
    /\ eventsHandled = 2

\* C13: once a save failed because the backend gave no response, no later save
\* of the session sends a write to the backend: they go to the browser's store.
C13_NoRemoteWriteAfterUnreachable ==
    ~audit.remoteAfterFailure

\* C21: at most one save request (create or update) of the window is awaiting
\* its response at any time; an edit made while a save is in flight starts no
\* second save.
C21_OneSaveInFlight ==
    Cardinality(inflight) <= 1

\* C30: in a burst of edits, each arriving while the timeout the previous
\* edit set is pending, every edit cancels that timeout and sets a new one,
\* so that one timeout is pending after the last edit and one transition to
\* SAVING follows it.
C30_BurstCollapsesToOneSave ==
    debounce.burst >= 2 => (debounce.restarted /\ debounce.pending = 1)

\* C34: with a stored document open and a backend that answers, once the
\* user has stopped editing the controller reaches, and stays in, SAVED with
\* lastSavedSignature equal to the signature of the content on screen.
C34_EventuallySaved ==
    <>[](saveState = "SAVED" /\ lastSavedSignature = contentSignature)

\* C35: whenever the window is in SAVED with no save in flight and no
\* autosave timeout pending, the content its last write left in the store is
\* the content on screen and lastSavedSignature is the signature of it.
C35_SavedMeansStored ==
    (saveState = "SAVED" /\ inflight = {} /\ ~autosaveTimer) =>
        /\ lastSavedSignature = contentSignature
        /\ JSONparse(tables[ActiveStore][docId].content) = contentSignature

\* C36: a window that opened a stored document from the backend and in
\* which the user made no edit and gave no save command never sends a write
\* (create or update).
C36_NoWriteWithoutEdit ==
    (~startedNew /\ ~audit.edited /\ ~commanded /\ backendAvailable) =>
        lastWrite.kind = "none"

\* C33: a run of checkBackend makes at most three health probes with one
\* pause between two probes; it ends with backendAvailable set at its first
\* probe that succeeded, and with backendAvailable cleared after the third
\* probe failed.
C33_CheckEndsWithinThreeProbes ==
    /\ probe.probes <= 3
    /\ probe.phase = "done" =>
           /\ probe.pauses = probe.probes - 1
           /\ backendAvailable = probe.ok
           /\ ~probe.ok => probe.probes = 3

\* C33 witness: a check that was not the first of the window ended in
\* local-only mode after its third probe and second pause
C33_ThirdFailureEndsLocal ==
    /\ probe.phase = "done" /\ ~probe.ok
    /\ probe.probes = 3 /\ probe.pauses = 2
    /\ probe.checks >= 2
    /\ ~backendAvailable /\ socket[ThisClient] = "null"

\* C29: load() ends with the document of the first identity source, in the
\* order diagramId link, shareId, window.name, most recent document, whose
\* store has it; a source that fails is followed by the next one, and no
\* document is selected only when every source failed.
C29_FailedSourceFallsThrough ==
    loadRun.phase = "done" => loadRun.selected = FirstAvailable(loadRun)

----------------------------------------------------------------------------
(* Catalog and Connection Manager properties, checked under SpecManager,   *)
(* SpecLifecycle or SpecOverlap                                            *)

\* C8: after every saveConfig with is_default set, setDefaultConfig and
\* connect, at most one row of the configuration catalog has is_default set.
C8_AtMostOneDefault ==
    Cardinality({k \in ConfigKeys : catalog[k].present /\ catalog[k].is_default}) <= 1

\* C9: no storage connection opened by the Connection Manager is open
\* without being the active connection.
C9_OnlyActiveConnectionOpen ==
    \A h \in openConnections : h = currentConnection

\* C10: testConnection leaves currentConnection, connectionConfig and the
\* stored tunnel handle sshTunnel as they were before the call.
C10_TestLeavesActiveState ==
    lastCall.op = "testConnection" =>
        <<currentConnection, connectionConfig, sshTunnel>> = lastCall.before

\* C22: when two apply/connect requests overlap, the second does not start
\* establishing a connection while the first is still doing so, and once
\* both have connected the manager has exactly one open connection, its
\* active connection.
C22_NoConcurrentConnects ==
    /\ ~(\A i \in Requests : handlers[i].phase \in Establishing)
    /\ (\A i \in Requests : handlers[i].phase = "done") =>
          openConnections = {currentConnection}

\* C23: when two operations that set the default for different engines have
\* both completed, at most one row of the catalog has is_default set.
C23_OneDefaultAfterConcurrentSets ==
    ((\A i \in Requests : handlers[i].phase \in Completed \cup {"marked", "opened"}
                           /\ handlers[i].config.is_default)
       /\ handlers[1].config.engine # handlers[2].config.engine) =>
        Cardinality({k \in ConfigKeys : catalog[k].present /\ catalog[k].is_default}) <= 1

\* C24: when an apply or engine-switch request fails at a step after its
\* test (teardown, establishing the new connection, schema bootstrap), the
\* connection that was active before the request is still open and still the
\* manager's active connection.
C24_ActiveReplacedOnlyOnSuccess ==
    (lastCall.op \in {"connect", "apply"} /\ callAudit.err /\ callAudit.hadActive) =>
        callAudit.activeKept

\* C25: a connect call that fails leaves the configuration catalog, the
\* default flag of every row included, as it was before the call.
C25_FailedConnectKeepsCatalog ==
    (lastCall.op \in {"connect", "apply"}
       /\ callAudit.outcome \in {"tunnelFails", "connectFails", "schemaFails"}) =>
        ~callAudit.catChanged

\* C26: on every exit path of testConnection, every connection handle, SSH
\* client and forwarded stream that the call opened is closed when it returns.
C26_TestClosesWhatItOpened ==
    lastCall.op = "testConnection" => ~callAudit.leaked

\* C27: disconnect() never throws and ends with isConnected() = false and
\* getConfig() = null; without an active connection it changes no resource;
\* when closing the connection handle throws, the tunnel stream of the
\* connection has been ended all the same.
C27_DisconnectIdempotent ==
    lastCall.op = "disconnect" =>
        /\ ~callAudit.err
        /\ currentConnection = 0 /\ connectionConfig = NoConfig
        /\ ~callAudit.hadActive => callAudit.sameResources
        /\ (callAudit.hadActive /\ callAudit.outcome = "closeThrows" /\ callAudit.stream # 0)
              => callAudit.stream \notin openStreams

\* C27 witness: disconnect ran on a connection that goes through an SSH
\* tunnel, and closing the connection handle threw
C27_TunnelledCloseThrew ==
    /\ lastCall.op = "disconnect" /\ callAudit.hadActive
    /\ callAudit.outcome = "closeThrows" /\ callAudit.stream # 0

----------------------------------------------------------------------------
(* Configuration store properties, checked under SpecConfigs *)

\* C15: no response of the Configuration API (list configs, config by engine,
\* settings status) carries the value of a secret field, in plaintext or as
\* an envelope.
C15_NoSecretInResponses ==
    \A cfg \in lastReply.body : cfg["password"] = <<>>

\* C18: database_configs holds at most one row per (engine, name), and a
\* saveConfig for a pair that exists returns the id of its row and leaves the
\* number of rows unchanged.
C18_UpsertByEngineAndName ==
    /\ \A r1 \in configRows : \A r2 \in configRows :
          (r1.engine = r2.engine /\ r1.name = r2.name) => r1 = r2
    /\ (lastReply.op = "saveConfig" /\ lastReply.existed) =>
          /\ lastReply.id = lastReply.expected
          /\ Cardinality(configRows) = lastReply.before

\* C18 witness: a saveConfig for a pair that exists, in a table of three
\* rows, returned the id of a row inserted after the baseline row
C18_SavedExistingPair ==
    /\ lastReply.op = "saveConfig" /\ lastReply.existed
    /\ lastReply.id > 1
    /\ Cardinality(configRows) = 3


\* C19: for every non-empty string s, decrypt(encrypt(s)) = s under the same
\* key, and encrypt of the empty string is the empty string.
C19_DecryptInvertsEncrypt ==
    /\ (cryptoRun.phase = "decrypted" /\ cryptoRun.text # <<>>) =>
           cryptoRun.decrypted = cryptoRun.text
    /\ (cryptoRun.phase # "input" /\ cryptoRun.text = <<>>) => cryptoRun.envelope = <<>>

\* C19 witness: a text of the greatest length was encrypted to an envelope
\* that differs from it and was decrypted back
C19_RoundTripDone ==
    /\ cryptoRun.phase = "decrypted"
    /\ Len(cryptoRun.text) = MaxText
    /\ Cardinality(Colons(cryptoRun.envelope)) = 1
    /\ cryptoRun.envelope # cryptoRun.text
    /\ cryptoRun.decrypted = cryptoRun.text

\* C32: decrypt never throws; a value that does not split into exactly two
\* parts at ':' is returned unchanged, and so is a value whose deciphering
\* fails (bad iv, bad ciphertext, wrong key).
C32_DecryptNeverThrows ==
    cryptoRun.phase = "read" =>
        /\ ~cryptoRun.threw
        /\ Cardinality(Colons(cryptoRun.envelope)) # 1 =>
               cryptoRun.decrypted = cryptoRun.envelope
        /\ cryptoRun.failed => cryptoRun.decrypted = cryptoRun.envelope

\* C32 witness: a value of the form iv:data on which deciphering failed was
\* returned as it was stored
C32_FailedDecipherReturned ==
    /\ cryptoRun.phase = "read"
    /\ Cardinality(Colons(cryptoRun.envelope)) = 1
    /\ cryptoRun.failed
    /\ Len(cryptoRun.envelope) = MaxStored
    /\ cryptoRun.decrypted = cryptoRun.envelope

----------------------------------------------------------------------------
(* sanitizeForEngine, checked under SpecSanitize *)

\* C20: sanitizeForEngine is idempotent: for every configuration c, of any
\* engine value, letter case and set of fields,
\* sanitizeForEngine(sanitizeForEngine(c)) equals sanitizeForEngine(c).
C20_SanitizeIdempotent ==
    sanitizeRun.phase = "twice" => sanitizeRun.twice = sanitizeRun.once

\* C20 witness: a mixed-case network engine without port and database was
\* sanitized twice, and the first pass changed it
C20_SanitizedTwice ==
    /\ sanitizeRun.phase = "twice"
    /\ Field(sanitizeRun.input, "engine") = "MySQL"
    /\ "port" \notin DOMAIN sanitizeRun.input
    /\ sanitizeRun.once["engine"] = "mysql"
    /\ sanitizeRun.once["port"] = "3306"
    /\ sanitizeRun.once["database"] = "drawdb"

====
